---- MODULE Spec2Model ----
(***************************************************************************)
(* Model of the keyframe animation engine of src/src/agent/animation.py:   *)
(* Keyframe, TimelineTrack, AnimationTimeline, AnimationPlayer and         *)
(* KeyframeRecorder.                                                        *)
(*                                                                          *)
(* Numbers.  Python floats are modelled as exact rationals <<n, d>> with   *)
(* d > 0 and gcd(n, d) = 1.  The time arithmetic of copy_keyframes,        *)
(* paste_keyframes and advance is rounded to a float of FloatBits          *)
(* significant bits (Fl); interpolation is computed exactly.               *)
(*                                                                          *)
(* Calls.  One action per method call.  The variable `last` records the    *)
(* most recent call: its name, its receiver, the exception it raised       *)
(* ("None" when it returned) and the value it returned.                    *)
(***************************************************************************)
EXTENDS Integers, Sequences, FiniteSets, TLC

VARIABLES
    timeline,   \* the AnimationTimeline: duration, frame_rate, tracks, current_time, loop
    players,    \* the AnimationPlayer objects wrapping `timeline`: playing, speed, direction
    recorder,   \* the KeyframeRecorder: auto_keyframe, record_button_enabled
    last,       \* the most recent call: op, target, args, raised, result
    lastSet,    \* which statement last assigned timeline.current_time
    inflight,   \* per player, the advance call its update is in: pc, delta, base, next_time
    pasting     \* the paste_keyframes call under way: pc, target, offset, own, given, i, before

vars == <<timeline, players, recorder, last, lastSet, inflight, pasting>>

----------------------------------------------------------------------------
(* float arithmetic *)

Abs(n) == IF n < 0 THEN -n ELSE n

RECURSIVE GCD(_, _)
GCD(a, b) == IF b = 0 THEN a ELSE GCD(b, a % b)

\* the float n/d, in lowest terms with a positive denominator
Frac(n, d) ==
    LET g == GCD(Abs(n), Abs(d))
        s == IF d < 0 THEN -1 ELSE 1
    IN  <<(s * n) \div g, (s * d) \div g>>

\* float(n)
R(n) == <<n, 1>>

RAdd(a, b) == Frac(a[1] * b[2] + b[1] * a[2], a[2] * b[2])
RSub(a, b) == Frac(a[1] * b[2] - b[1] * a[2], a[2] * b[2])
RMul(a, b) == Frac(a[1] * b[1], a[2] * b[2])
\* a / b, b # 0
RDiv(a, b) == Frac(a[1] * b[2], a[2] * b[1])
RLt(a, b)  == a[1] * b[2] < b[1] * a[2]
RLeq(a, b) == a[1] * b[2] <= b[1] * a[2]
RMin(a, b) == IF RLt(b, a) THEN b ELSE a
RMax(a, b) == IF RLt(a, b) THEN b ELSE a

\* significand bits of the float format in which times are computed (53 in
\* CPython; narrowed so that rounding shows on small inputs)
FloatBits == 3

\* n/d >= 0 rounded to an integer, halves to the even neighbour
RoundHalfEven(n, d) ==
    LET q == n \div d
        r == n % d
    IN  IF 2 * r > d \/ (2 * r = d /\ q % 2 = 1) THEN q + 1 ELSE q

\* n/d > 0 rounded to FloatBits significant bits
RECURSIVE FlMag(_, _)
FlMag(n, d) ==
    IF n >= (2 ^ FloatBits) * d THEN RMul(R(2), FlMag(n, 2 * d))
    ELSE IF n < (2 ^ (FloatBits - 1)) * d THEN RDiv(FlMag(2 * n, d), R(2))
    ELSE R(RoundHalfEven(n, d))

\* the float nearest to x (round to nearest, ties to even): what a float
\* operation stores of its exact result x
Fl(x) ==
    IF x[1] = 0 THEN x
    ELSE IF x[1] < 0 THEN RSub(R(0), FlMag(-x[1], x[2]))
    ELSE FlMag(x[1], x[2])

\* Python's a % b on floats for b > 0: fmod(a, b), which is exact, and for a
\* negative remainder the float sum fmod(a, b) + b, which is rounded and can
\* be b itself
RMod(a, b) ==
    LET q == RDiv(a, b)
        r == RSub(a, RMul(b, R(q[1] \div q[2])))
    IN  IF RLt(a, R(0)) THEN Fl(r) ELSE r

----------------------------------------------------------------------------
(* exceptions *)

None == "None"
\* raise ValueError("Track is locked; ..."): the lock error
LockedError == "ValueError"
\* raise RuntimeError("Recording is disabled; ..."): the recording-disabled error
RecordingDisabledError == "RuntimeError"

----------------------------------------------------------------------------
(* Keyframe *)

\* a float value
Scalar(r) == [kind |-> "scalar", v |-> r]
\* a Sequence[float] value
Vector(s) == [kind |-> "vector", v |-> s]

\* Keyframe(time, property_path, value, interpolation).  ref is the identity
\* of the object: 0 for an object held in one list slot only, g > 0 for an
\* object that several list slots refer to (they all carry the same g).
Keyframe(time, property_path, value, interpolation) ==
    [ref |-> 0, time |-> time, property_path |-> property_path,
     value |-> value, interpolation |-> interpolation]

----------------------------------------------------------------------------
(* TimelineTrack *)

\* TimelineTrack(object_id): keyframes = [], muted = False, locked = False
TimelineTrack(object_id) ==
    [object_id |-> object_id, keyframes |-> <<>>, muted |-> FALSE, locked |-> FALSE]

\* s with x put after the last element whose time is <= x.time (s sorted)
RECURSIVE InsertByTime(_, _)
InsertByTime(s, x) ==
    IF s = <<>> THEN <<x>>
    ELSE IF RLeq(s[Len(s)].time, x.time) THEN Append(s, x)
    ELSE Append(InsertByTime(SubSeq(s, 1, Len(s) - 1), x), s[Len(s)])

\* list.sort(key=lambda k: k.time): stable, ascending by time
RECURSIVE SortByTime(_)
SortByTime(s) ==
    IF Len(s) <= 1 THEN s
    ELSE InsertByTime(SortByTime(SubSeq(s, 1, Len(s) - 1)), s[Len(s)])

\* Every method below takes the track `self` and returns
\* [self |-> the track afterwards, raised |-> the exception or None].

\* add_keyframe without its sort
add_keyframe_unsorted(self, keyframe) ==
    IF self.locked
    THEN [self |-> self, raised |-> "ValueError"]
    ELSE [self |-> [self EXCEPT !.keyframes = Append(@, keyframe)], raised |-> "None"]

\* s with x put before the first element whose time is >= x.time (s sorted)
RECURSIVE InsertBeforeEqual(_, _)
InsertBeforeEqual(s, x) ==
    IF s = <<>> THEN <<x>>
    ELSE IF RLt(s[Len(s)].time, x.time) THEN Append(s, x)
    ELSE Append(InsertBeforeEqual(SubSeq(s, 1, Len(s) - 1), x), s[Len(s)])

\* add_keyframe whose sort puts the new keyframe before those of equal time
add_keyframe_before_equal(self, keyframe) ==
    IF self.locked
    THEN [self |-> self, raised |-> "ValueError"]
    ELSE [self |-> [self EXCEPT !.keyframes = InsertBeforeEqual(SortByTime(@), keyframe)],
          raised |-> "None"]

add_keyframe(self, keyframe) ==
    IF self.locked
    THEN [self |-> self, raised |-> LockedError]
    ELSE [self |-> [self EXCEPT !.keyframes = SortByTime(Append(@, keyframe))],
          raised |-> None]

\* delete_keyframe that removes the first matching keyframe only
delete_keyframe_first(self, property_path, time) ==
    IF self.locked
    THEN [self |-> self, raised |-> "ValueError"]
    ELSE LET hits == {i \in 1..Len(self.keyframes) :
                         /\ self.keyframes[i].property_path = property_path
                         /\ self.keyframes[i].time = time}
             first == IF hits = {} THEN 0 ELSE CHOOSE i \in hits : \A j \in hits : i <= j
         IN  [self |-> [self EXCEPT !.keyframes =
                            [j \in 1..(Len(@) - (IF first = 0 THEN 0 ELSE 1)) |->
                                IF first = 0 \/ j < first THEN @[j] ELSE @[j + 1]]],
              raised |-> "None"]

delete_keyframe(self, property_path, time) ==
    IF self.locked
    THEN [self |-> self, raised |-> LockedError]
    ELSE LET Keep(kf) == ~(kf.property_path = property_path /\ kf.time = time)
         IN  [self |-> [self EXCEPT !.keyframes = SelectSeq(@, Keep)], raised |-> None]

\* the keyframes with kf.time = new_time assigned where path and old time match
Retimed(keyframes, property_path, old_time, new_time) ==
    [i \in 1..Len(keyframes) |->
        IF keyframes[i].property_path = property_path /\ keyframes[i].time = old_time
        THEN [keyframes[i] EXCEPT !.time = new_time]
        ELSE keyframes[i]]

move_keyframe(self, property_path, old_time, new_time) ==
    IF self.locked
    THEN [self |-> self, raised |-> LockedError]
    ELSE [self |-> [self EXCEPT !.keyframes =
                        SortByTime(Retimed(@, property_path, old_time, new_time))],
          raised |-> None]

\* copy_keyframes that leaves out the keyframes at the window's end
copy_keyframes_half_open(self, start, end) ==
    LET InWindow(kf) == RLeq(start, kf.time) /\ RLt(kf.time, end)
        picked == SelectSeq(self.keyframes, InWindow)
    IN  [i \in 1..Len(picked) |->
            Keyframe(Fl(RSub(picked[i].time, start)), picked[i].property_path,
                     picked[i].value, picked[i].interpolation)]

\* copy_keyframes returns a new list of new Keyframe objects
copy_keyframes(self, start, end) ==
    LET InWindow(kf) == RLeq(start, kf.time) /\ RLeq(kf.time, end)
        picked == SelectSeq(self.keyframes, InWindow)
    IN  [i \in 1..Len(picked) |->
            Keyframe(Fl(RSub(picked[i].time, start)), picked[i].property_path,
                     picked[i].value, picked[i].interpolation)]

\* the for loop of paste_keyframes from its i-th iteration on
RECURSIVE PasteLoop(_, _, _, _)
PasteLoop(self, offset, keyframes, i) ==
    IF i > Len(keyframes) THEN [self |-> self, raised |-> None]
    ELSE LET kf == keyframes[i]
             r  == add_keyframe(self, Keyframe(Fl(RAdd(kf.time, offset)), kf.property_path,
                                                kf.value, kf.interpolation))
         IN  IF r.raised # None THEN r
             ELSE PasteLoop(r.self, offset, keyframes, i + 1)

\* paste_keyframes without its own lock check, relying on add_keyframe's
paste_keyframes_unguarded(self, offset, keyframes) ==
    PasteLoop(self, offset, keyframes, 1)

paste_keyframes(self, offset, keyframes) ==
    IF self.locked
    THEN [self |-> self, raised |-> LockedError]
    ELSE PasteLoop(self, offset, keyframes, 1)

----------------------------------------------------------------------------
(* interpolation and sampling *)

\* float(x) applied to x, or zip(start, end) applied to a float
TypeError == "TypeError"

\* a dict with no entry
EmptyMap == [p \in {} |-> 0]

\* the easing of _lerp: t clamped to [0, 1], then shaped by the mode
Ease(t, mode) ==
    LET c == RMax(R(0), RMin(t, R(1)))
    IN  CASE mode = "ease-in"  -> RMul(c, c)
          [] mode = "ease-out" -> RSub(R(1), RMul(RSub(R(1), c), RSub(R(1), c)))
          [] mode = "bezier"   -> RSub(RMul(R(3), RMul(c, c)),
                                       RMul(R(2), RMul(c, RMul(c, c))))
          [] OTHER             -> c

\* float(start) + (float(end) - float(start)) * t_clamped
Mix(s, e, c) == RAdd(s, RMul(RSub(e, s), c))

\* _lerp(start, end, t, mode): [raised, value]
lerp(start, end, t, mode) ==
    LET c == Ease(t, mode)
    IN  IF start.kind = "vector"
        THEN IF end.kind # "vector"
             THEN [raised |-> TypeError, value |-> start]
             ELSE \* zip stops at the shorter of the two sequences
                  LET n == IF Len(start.v) < Len(end.v) THEN Len(start.v) ELSE Len(end.v)
                  IN  [raised |-> None,
                       value |-> Vector([i \in 1..n |->
                                    Mix(start.v[i], end.v[i], Ease(c, "linear"))])]
        ELSE IF end.kind # "scalar"
             THEN [raised |-> TypeError, value |-> start]
             ELSE [raised |-> None, value |-> Scalar(Mix(start.v, end.v, c))]

\* the loop of _find_adjacent_keyframes over the sorted list, from index i;
\* before and after are <<>> (None) or <<kf>>
RECURSIVE FindLoop(_, _, _, _, _)
FindLoop(sorted, time, i, before, after) ==
    IF i > Len(sorted) THEN [before |-> before, after |-> after]
    ELSE LET kf == sorted[i]
         IN  IF RLeq(kf.time, time)
             THEN FindLoop(sorted, time, i + 1, <<kf>>, after)
             ELSE IF RLt(time, kf.time) /\ after = <<>>
             THEN FindLoop(sorted, time, i + 1, before, <<kf>>)
             ELSE FindLoop(sorted, time, i + 1, before, after)

\* _find_adjacent_keyframes whose before is the first, not the last, of the
\* keyframes sharing the greatest time <= time
find_adjacent_first_equal(keyframes, time) ==
    LET sorted == SortByTime(keyframes)
        r == FindLoop(sorted, time, 1, <<>>, <<>>)
    IN  IF r.before = <<>> THEN r
        ELSE [r EXCEPT !.before =
                 <<sorted[CHOOSE i \in 1..Len(sorted) :
                             /\ sorted[i].time = r.before[1].time
                             /\ \A j \in 1..(i - 1) : sorted[j].time # r.before[1].time]>>]

\* _find_adjacent_keyframes that reports no later keyframe
find_adjacent_no_after(keyframes, time) ==
    [FindLoop(SortByTime(keyframes), time, 1, <<>>, <<>>) EXCEPT !.after = <<>>]

find_adjacent_keyframes(keyframes, time) ==
    FindLoop(SortByTime(keyframes), time, 1, <<>>, <<>>)

\* the value for one path, interpolated with before.interpolation
PathValue_before_mode(self, path, time) ==
    LET IsSibling(kf) == kf.property_path = path
        siblings == SelectSeq(self.keyframes, IsSibling)
        adj == FindLoop(SortByTime(siblings), time, 1, <<>>, <<>>)
    IN  IF adj.before # <<>> /\ adj.after # <<>>
        THEN LET before == adj.before[1]
                 after  == adj.after[1]
                 t_norm == IF after.time # before.time
                           THEN RDiv(RSub(time, before.time),
                                     RSub(after.time, before.time))
                           ELSE R(0)
                 r == lerp(before.value, after.value, t_norm, before.interpolation)
             IN  [raised |-> r.raised, has |-> TRUE, value |-> r.value]
        ELSE IF adj.before # <<>>
        THEN [raised |-> None, has |-> TRUE, value |-> adj.before[1].value]
        ELSE IF adj.after # <<>>
        THEN [raised |-> None, has |-> TRUE, value |-> adj.after[1].value]
        ELSE [raised |-> None, has |-> FALSE, value |-> Scalar(R(0))]

\* the value _interpolate_values stores for one path: [raised, has, value]
PathValue(self, path, time) ==
    LET IsSibling(kf) == kf.property_path = path
        siblings == SelectSeq(self.keyframes, IsSibling)
        adj == find_adjacent_keyframes(siblings, time)
    IN  IF adj.before # <<>> /\ adj.after # <<>>
        THEN LET before == adj.before[1]
                 after  == adj.after[1]
                 t_norm == IF after.time # before.time
                           THEN RDiv(RSub(time, before.time),
                                     RSub(after.time, before.time))
                           ELSE R(0)
                 r == lerp(before.value, after.value, t_norm, after.interpolation)
             IN  [raised |-> r.raised, has |-> TRUE, value |-> r.value]
        ELSE IF adj.before # <<>>
        THEN [raised |-> None, has |-> TRUE, value |-> adj.before[1].value]
        ELSE IF adj.after # <<>>
        THEN [raised |-> None, has |-> TRUE, value |-> adj.after[1].value]
        ELSE [raised |-> None, has |-> FALSE, value |-> Scalar(R(0))]

\* the dict built from the per-path values pv
Collect(self, pv) ==
    IF \E p \in DOMAIN pv : pv[p].raised # None
    THEN [self |-> self, raised |-> TypeError, result |-> EmptyMap]
    ELSE [self |-> self, raised |-> None,
          result |-> [p \in {q \in DOMAIN pv : pv[q].has} |-> pv[p].value]]

\* _interpolate_values(time): [self, raised, result]
interpolate_values(self, time) ==
    Collect(self, [p \in {self.keyframes[i].property_path : i \in 1..Len(self.keyframes)}
                      |-> PathValue(self, p, time)])

\* sample without the muted test
track_sample_unmuted(self, time) ==
    interpolate_values(self, time)

\* sample whose loop over the paths stores a sibling list back into
\* self.keyframes
track_sample_narrowing(self, time) ==
    IF self.muted
    THEN [self |-> self, raised |-> None, result |-> EmptyMap]
    ELSE LET paths == {self.keyframes[i].property_path : i \in 1..Len(self.keyframes)}
             IsKept(kf) == kf.property_path = CHOOSE p \in paths : TRUE
         IN  [interpolate_values(self, time) EXCEPT
                  !.self = [self EXCEPT !.keyframes = SelectSeq(@, IsKept)]]

\* TimelineTrack.sample(time): [self, raised, result]; no statement of sample,
\* _interpolate_values or _find_adjacent_keyframes assigns to the track
track_sample(self, time) ==
    IF self.muted
    THEN [self |-> self, raised |-> None, result |-> EmptyMap]
    ELSE interpolate_values(self, time)

----------------------------------------------------------------------------
(* AnimationTimeline *)

\* AnimationTimeline(duration, frame_rate, current_time, loop) with tracks = {}
AnimationTimeline(duration, frame_rate, current_time, loop) ==
    [duration |-> duration, frame_rate |-> frame_rate, tracks |-> EmptyMap,
     current_time |-> current_time, loop |-> loop]

\* self.tracks[object_id] = track
WithTrack(self, object_id, track) ==
    [self EXCEPT !.tracks =
        [o \in DOMAIN self.tracks \cup {object_id} |->
            IF o = object_id THEN track ELSE self.tracks[o]]]

\* add_track that keeps a track already stored under object_id
add_track_if_absent(self, object_id) ==
    IF object_id \in DOMAIN self.tracks THEN self
    ELSE WithTrack(self, object_id, TimelineTrack(object_id))

add_track(self, object_id) == WithTrack(self, object_id, TimelineTrack(object_id))

remove_track(self, object_id) ==
    IF object_id \in DOMAIN self.tracks
    THEN [self EXCEPT !.tracks = [o \in DOMAIN self.tracks \ {object_id} |-> self.tracks[o]]]
    ELSE self

seek(self, time) ==
    [self EXCEPT !.current_time = RMax(R(0), RMin(time, self.duration))]

\* advance with the wrap done by a truncating remainder (C fmod: the result
\* takes the sign of next_time)
advance_fmod(self, delta_time) ==
    LET next_time == Fl(RAdd(self.current_time, delta_time))
        q == RDiv(next_time, IF RLt(R(0), self.duration) THEN self.duration ELSE R(1))
        trunc == IF q[1] < 0 THEN -((-q[1]) \div q[2]) ELSE q[1] \div q[2]
    IN  IF self.loop
        THEN [self EXCEPT !.current_time =
                 IF RLt(R(0), self.duration)
                 THEN RSub(next_time, RMul(self.duration, R(trunc))) ELSE R(0)]
        ELSE [self EXCEPT !.current_time = RMin(RMax(R(0), next_time), self.duration)]

\* advance clamping at the end of the timeline only
advance_upper_only(self, delta_time) ==
    LET next_time == Fl(RAdd(self.current_time, delta_time))
    IN  IF self.loop
        THEN [self EXCEPT !.current_time =
                 IF RLt(R(0), self.duration) THEN RMod(next_time, self.duration) ELSE R(0)]
        ELSE [self EXCEPT !.current_time = RMin(next_time, self.duration)]

\* advance that wraps whether or not loop is set
advance_always_wraps(self, delta_time) ==
    LET next_time == Fl(RAdd(self.current_time, delta_time))
    IN  [self EXCEPT !.current_time =
            IF RLt(R(0), self.duration) THEN RMod(next_time, self.duration) ELSE R(0)]

advance(self, delta_time) ==
    LET next_time == Fl(RAdd(self.current_time, delta_time))
    IN  IF self.loop
        THEN [self EXCEPT !.current_time =
                 IF RLt(R(0), self.duration) THEN RMod(next_time, self.duration) ELSE R(0)]
        ELSE [self EXCEPT !.current_time = RMin(RMax(R(0), next_time), self.duration)]

\* the first statement of advance: the local next_time
advance_read(self, delta_time) == Fl(RAdd(self.current_time, delta_time))

\* the rest of advance, computing from the playhead as it is now
advance_write_atomic(self, delta_time, next_time) ==
    advance(self, delta_time)

\* the rest of advance: the assignment to current_time from the local next_time
advance_write(self, delta_time, next_time) ==
    IF self.loop
    THEN [self EXCEPT !.current_time =
             IF RLt(R(0), self.duration) THEN RMod(next_time, self.duration) ELSE R(0)]
    ELSE [self EXCEPT !.current_time = RMin(RMax(R(0), next_time), self.duration)]

step(self, frames) == advance(self, RDiv(R(frames), R(self.frame_rate)))

\* the dict built from the per-track samples ts
Gather(self, ts) ==
    LET after == [self EXCEPT !.tracks = [o \in DOMAIN ts |-> ts[o].self]]
    IN  IF \E o \in DOMAIN ts : ts[o].raised # None
        THEN [self |-> after, raised |-> TypeError, result |-> EmptyMap]
        ELSE [self |-> after, raised |-> None,
              result |-> [o \in DOMAIN ts |-> ts[o].result]]

\* AnimationTimeline.sample(): [self, raised, result]
timeline_sample(self) ==
    Gather(self, [o \in DOMAIN self.tracks |->
                     track_sample(self.tracks[o], self.current_time)])

----------------------------------------------------------------------------
(* AnimationPlayer.  Every method takes the player `self` and the timeline *)
(* it wraps and returns what both are afterwards.                          *)

\* AnimationPlayer(timeline)
AnimationPlayer == [playing |-> FALSE, speed |-> R(1), direction |-> R(1)]

\* play that keeps the loop argument to itself, leaving timeline.loop alone
play_own_loop(self, tl, loop, speed, reverse) ==
    [timeline |-> tl,
     self |-> [playing |-> TRUE, speed |-> speed,
               direction |-> IF reverse THEN R(-1) ELSE R(1)]]

play(self, tl, loop, speed, reverse) ==
    [timeline |-> [tl EXCEPT !.loop = loop],
     self |-> [playing |-> TRUE, speed |-> speed,
               direction |-> IF reverse THEN R(-1) ELSE R(1)]]

pause(self, tl) ==
    [timeline |-> tl, self |-> [self EXCEPT !.playing = FALSE]]

\* stop without its seek(0.0)
stop_without_seek(self, tl) ==
    [timeline |-> tl, self |-> [self EXCEPT !.playing = FALSE]]

stop(self, tl) ==
    [timeline |-> seek(tl, R(0)), self |-> [self EXCEPT !.playing = FALSE]]

\* a player with no update call under way
NoCall == [pc |-> "idle", delta |-> R(0), base |-> R(0), next_time |-> R(0)]

\* update advancing whether or not the player is playing
update_always(self, tl, delta_time) ==
    LET s == timeline_sample(
                 advance(tl, RMul(RMul(delta_time, self.speed), self.direction)))
    IN  [timeline |-> s.self, self |-> self, raised |-> s.raised, result |-> s.result]

\* update that samples before it advances
update_sample_first(self, tl, delta_time) ==
    IF ~self.playing
    THEN LET s == timeline_sample(tl)
         IN  [timeline |-> s.self, self |-> self, raised |-> s.raised, result |-> s.result]
    ELSE LET s == timeline_sample(tl)
         IN  [timeline |-> advance(s.self, RMul(RMul(delta_time, self.speed), self.direction)),
              self |-> self, raised |-> s.raised, result |-> s.result]

\* update(delta_time): [timeline, self, raised, result]
update(self, tl, delta_time) ==
    IF ~self.playing
    THEN LET s == timeline_sample(tl)
         IN  [timeline |-> s.self, self |-> self, raised |-> s.raised, result |-> s.result]
    ELSE LET s == timeline_sample(
                      advance(tl, RMul(RMul(delta_time, self.speed), self.direction)))
         IN  [timeline |-> s.self, self |-> self, raised |-> s.raised, result |-> s.result]

----------------------------------------------------------------------------
(* KeyframeRecorder *)

\* KeyframeRecorder(auto_keyframe)
KeyframeRecorder(auto_keyframe) ==
    [auto_keyframe |-> auto_keyframe, record_button_enabled |-> FALSE]

toggle_record(self, on) == [self EXCEPT !.record_button_enabled = on]

\* record_change with the gate written `and`
record_change_and(self, track, property_path, value, time, interpolation) ==
    IF ~(self.auto_keyframe /\ self.record_button_enabled)
    THEN [track |-> track, raised |-> RecordingDisabledError, result |-> <<>>]
    ELSE LET keyframe == Keyframe(time, property_path, value, interpolation)
             r == add_keyframe(track, keyframe)
         IN  IF r.raised # None
             THEN [track |-> r.self, raised |-> r.raised, result |-> <<>>]
             ELSE [track |-> r.self, raised |-> None, result |-> <<keyframe>>]

\* record_change that appends to track.keyframes itself
record_change_bypass(self, track, property_path, value, time, interpolation) ==
    IF ~(self.auto_keyframe \/ self.record_button_enabled)
    THEN [track |-> track, raised |-> RecordingDisabledError, result |-> <<>>]
    ELSE LET keyframe == Keyframe(time, property_path, value, interpolation)
         IN  [track |-> [track EXCEPT !.keyframes = SortByTime(Append(@, keyframe))],
              raised |-> None, result |-> <<keyframe>>]

\* record_change(track, ...): [track, raised, result]; result is the keyframe
record_change(self, track, property_path, value, time, interpolation) ==
    IF ~(self.auto_keyframe \/ self.record_button_enabled)
    THEN [track |-> track, raised |-> RecordingDisabledError, result |-> <<>>]
    ELSE LET keyframe == Keyframe(time, property_path, value, interpolation)
             r == add_keyframe(track, keyframe)
         IN  IF r.raised # None
             THEN [track |-> r.self, raised |-> r.raised, result |-> <<>>]
             ELSE [track |-> r.self, raised |-> None, result |-> <<keyframe>>]

----------------------------------------------------------------------------
(* presets *)

\* the track after the add_keyframe calls of a preset builder
RECURSIVE AddAll(_, _)
AddAll(track, keyframes) ==
    IF keyframes = <<>> THEN track
    ELSE AddAll(add_keyframe(track, Head(keyframes)).self, Tail(keyframes))

rotate_360_preset(object_id, duration) ==
    LET tl == add_track(AnimationTimeline(duration, 60, R(0), TRUE), object_id)
    IN  WithTrack(tl, object_id,
            AddAll(tl.tracks[object_id],
                   <<Keyframe(R(0), "rotation.y", Scalar(R(0)), "linear"),
                     Keyframe(duration, "rotation.y", Scalar(R(360)), "linear")>>))

\* bounce_preset whose keyframes all take the default curve mode
bounce_preset_linear(object_id, height, duration) ==
    LET tl == add_track(AnimationTimeline(duration, 60, R(0), TRUE), object_id)
    IN  WithTrack(tl, object_id,
            AddAll(tl.tracks[object_id],
                   <<Keyframe(R(0), "position.y", Scalar(R(0)), "linear"),
                     Keyframe(RMul(duration, <<1, 2>>), "position.y", Scalar(height), "linear"),
                     Keyframe(duration, "position.y", Scalar(R(0)), "linear")>>))

bounce_preset(object_id, height, duration) ==
    LET tl == add_track(AnimationTimeline(duration, 60, R(0), TRUE), object_id)
    IN  WithTrack(tl, object_id,
            AddAll(tl.tracks[object_id],
                   <<Keyframe(R(0), "position.y", Scalar(R(0)), "ease-in"),
                     Keyframe(RMul(duration, <<1, 2>>), "position.y", Scalar(height), "ease-out"),
                     Keyframe(duration, "position.y", Scalar(R(0)), "ease-in")>>))

orbit_preset(object_id, radius, duration) ==
    LET tl == add_track(AnimationTimeline(duration, 60, R(0), TRUE), object_id)
    IN  WithTrack(tl, object_id,
            AddAll(tl.tracks[object_id],
                   <<Keyframe(R(0), "position.x", Scalar(radius), "linear"),
                     Keyframe(RMul(duration, <<1, 4>>), "position.z", Scalar(radius), "linear"),
                     Keyframe(RMul(duration, <<1, 2>>), "position.x",
                              Scalar(RSub(R(0), radius)), "linear"),
                     Keyframe(RMul(duration, <<3, 4>>), "position.z",
                              Scalar(RSub(R(0), radius)), "linear"),
                     Keyframe(duration, "position.x", Scalar(radius), "linear")>>))

----------------------------------------------------------------------------
(* bounds and the arguments the calls are tried with *)

\* most keyframes a track is grown to
MaxKf == 2
\* longest keyframe list handed to paste_keyframes
MaxPaste == 2

Times == {R(0), R(1), R(2)}
Paths == {"x", "y"}
Payloads == {<<Scalar(R(0)), "linear">>, <<Scalar(R(10)), "ease-in">>}

KfInputs ==
    {Keyframe(t, p, v[1], v[2]) : t \in Times, p \in Paths, v \in Payloads}

PasteKfs ==
    {Keyframe(R(0), "x", Scalar(R(10)), "ease-in"),
     Keyframe(R(1), "y", Scalar(R(0)), "linear")}

Offsets == {R(1), R(-1)}

SeqsUpTo(S, n) == UNION {[1..k -> S] : k \in 0..n}

----------------------------------------------------------------------------
(* calls *)

\* most keyframes of a track keyframes are copied from or pasted into
MaxClipKf == 2

\* longest keyframe list a paste_keyframes loop is followed to
MaxPasteLen == 5

\* no paste_keyframes call under way
NoPaste ==
    [pc |-> "idle", target |-> "", offset |-> R(0), own |-> FALSE, given |-> <<>>,
     i |-> 1, before |-> <<>>]

Call(op, target, args, raised, result) ==
    [op |-> op, target |-> target, args |-> args, raised |-> raised, result |-> result]

\* keyframes after `kf.time = new_time` ran on the objects `refs`, which other
\* lists hold too
Aliased(keyframes, refs, new_time) ==
    [i \in 1..Len(keyframes) |->
        IF keyframes[i].ref \in refs
        THEN [keyframes[i] EXCEPT !.time = new_time]
        ELSE keyframes[i]]

\* timeline.add_track(object_id)
AddTrack(object_id) ==
    /\ timeline' = add_track(timeline, object_id)
    /\ last' = Call("add_track", object_id, <<>>, None, <<>>)
    /\ UNCHANGED <<players, recorder, lastSet, inflight, pasting>>

\* timeline.remove_track(object_id)
RemoveTrack(object_id) ==
    /\ timeline' = remove_track(timeline, object_id)
    /\ last' = Call("remove_track", object_id, <<>>, None, <<>>)
    /\ UNCHANGED <<players, recorder, lastSet, inflight, pasting>>

\* timeline.tracks[o].locked = b
SetLocked(o, b) ==
    /\ o \in DOMAIN timeline.tracks
    /\ timeline' = WithTrack(timeline, o, [timeline.tracks[o] EXCEPT !.locked = b])
    /\ last' = Call("set_locked", o, <<>>, None, <<>>)
    /\ UNCHANGED <<players, recorder, lastSet, inflight, pasting>>

\* timeline.tracks[o].muted = b
SetMuted(o, b) ==
    /\ o \in DOMAIN timeline.tracks
    /\ timeline' = WithTrack(timeline, o, [timeline.tracks[o] EXCEPT !.muted = b])
    /\ last' = Call("set_muted", o, <<>>, None, <<>>)
    /\ UNCHANGED <<players, recorder, lastSet, inflight, pasting>>

\* timeline.tracks[o].add_keyframe(kf)
AddKeyframe(o, kf) ==
    /\ o \in DOMAIN timeline.tracks
    /\ timeline.tracks[o].locked \/ Len(timeline.tracks[o].keyframes) < MaxKf
    /\ LET r == add_keyframe(timeline.tracks[o], kf)
       IN  /\ timeline' = WithTrack(timeline, o, r.self)
           /\ last' = Call("add_keyframe", o, <<kf>>, r.raised, <<>>)
    /\ UNCHANGED <<players, recorder, lastSet, inflight, pasting>>

\* timeline.tracks[o].delete_keyframe(property_path, time)
DeleteKeyframe(o, property_path, time) ==
    /\ o \in DOMAIN timeline.tracks
    /\ LET r == delete_keyframe(timeline.tracks[o], property_path, time)
       IN  /\ timeline' = WithTrack(timeline, o, r.self)
           /\ last' = Call("delete_keyframe", o, <<property_path, time>>, r.raised, <<>>)
    /\ UNCHANGED <<players, recorder, lastSet, inflight, pasting>>

\* timeline.tracks[o].move_keyframe(property_path, old_time, new_time); the
\* assignment kf.time = new_time acts on the object, in every list holding it
MoveKeyframe(o, property_path, old_time, new_time) ==
    /\ o \in DOMAIN timeline.tracks
    /\ LET self == timeline.tracks[o]
           r == move_keyframe(self, property_path, old_time, new_time)
           refs == IF r.raised # None THEN {}
                   ELSE {self.keyframes[i].ref : i \in
                            {j \in 1..Len(self.keyframes) :
                                /\ self.keyframes[j].ref > 0
                                /\ self.keyframes[j].property_path = property_path
                                /\ self.keyframes[j].time = old_time}}
       IN  /\ timeline' = [timeline EXCEPT !.tracks =
                  [p \in DOMAIN timeline.tracks |->
                      IF p = o THEN r.self
                      ELSE [timeline.tracks[p] EXCEPT
                               !.keyframes = Aliased(@, refs, new_time)]]]
           /\ last' = Call("move_keyframe", o, <<>>, r.raised, <<>>)
    /\ UNCHANGED <<players, recorder, lastSet, inflight, pasting>>

\* timeline.tracks[o].paste_keyframes(offset, keyframes)
PasteKeyframes(o, offset, keyframes) ==
    /\ o \in DOMAIN timeline.tracks
    /\ \/ timeline.tracks[o].locked
       \/ Len(timeline.tracks[o].keyframes) + Len(keyframes) <= MaxKf
    /\ LET r == paste_keyframes(timeline.tracks[o], offset, keyframes)
       IN  /\ timeline' = WithTrack(timeline, o, r.self)
           /\ last' = Call("paste_keyframes", o, <<>>, r.raised, <<>>)
    /\ UNCHANGED <<players, recorder, lastSet, inflight, pasting>>

\* timeline.tracks[o].paste_keyframes(offset, keyframes), statement by
\* statement, up to the for loop: `keyframes` is a list of the caller's
PasteBegin(o, offset, keyframes) ==
    /\ o \in DOMAIN timeline.tracks
    /\ pasting.pc # "loop"
    /\ IF timeline.tracks[o].locked
       THEN /\ last' = Call("paste_keyframes", o, <<offset>>, LockedError, <<>>)
            /\ pasting' = NoPaste
       ELSE /\ pasting' = [pc |-> "loop", target |-> o, offset |-> offset, own |-> FALSE,
                            given |-> keyframes, i |-> 1,
                            before |-> timeline.tracks[o].keyframes]
            /\ UNCHANGED last
    /\ UNCHANGED <<timeline, players, recorder, lastSet, inflight>>

\* track = timeline.tracks[o]; track.paste_keyframes(offset, track.keyframes):
\* the list passed in is the list object the track holds
PasteOwnBegin(o, offset) ==
    /\ o \in DOMAIN timeline.tracks
    /\ pasting.pc # "loop"
    /\ IF timeline.tracks[o].locked
       THEN /\ last' = Call("paste_keyframes", o, <<offset>>, LockedError, <<>>)
            /\ pasting' = NoPaste
       ELSE /\ pasting' = [pc |-> "loop", target |-> o, offset |-> offset, own |-> TRUE,
                            given |-> <<>>, i |-> 1,
                            before |-> timeline.tracks[o].keyframes]
            /\ UNCHANGED last
    /\ UNCHANGED <<timeline, players, recorder, lastSet, inflight>>

\* the list the for loop of the paste_keyframes call under way iterates: the
\* caller's list, or the track's keyframes as they are now
PastedList ==
    IF pasting.own THEN timeline.tracks[pasting.target].keyframes ELSE pasting.given

\* one iteration of the for loop: the list iterator yields the element at
\* its index i, add_keyframe appends the shifted copy to the track and sorts
PasteIterate ==
    /\ pasting.pc = "loop"
    /\ pasting.i <= Len(PastedList)
    /\ Len(timeline.tracks[pasting.target].keyframes) < MaxPasteLen
    /\ LET kf == PastedList[pasting.i]
           r  == add_keyframe(timeline.tracks[pasting.target],
                              Keyframe(Fl(RAdd(kf.time, pasting.offset)), kf.property_path,
                                       kf.value, kf.interpolation))
       IN  /\ timeline' = WithTrack(timeline, pasting.target, r.self)
           /\ IF r.raised # None
              THEN /\ pasting' = [pasting EXCEPT !.pc = "done"]
                   /\ last' = Call("paste_keyframes", pasting.target,
                                   <<pasting.offset>>, r.raised, <<>>)
              ELSE /\ pasting' = [pasting EXCEPT !.i = @ + 1]
                   /\ UNCHANGED last
    /\ UNCHANGED <<players, recorder, lastSet, inflight>>

\* the list iterator is exhausted: the for loop ends and paste_keyframes returns
PasteExit ==
    /\ pasting.pc = "loop"
    /\ pasting.i > Len(PastedList)
    /\ pasting' = [pasting EXCEPT !.pc = "done"]
    /\ last' = Call("paste_keyframes", pasting.target, <<pasting.offset>>, None, <<>>)
    /\ UNCHANGED <<timeline, players, recorder, lastSet, inflight>>

\* timeline.tracks[o].copy_keyframes(start, end); the caller keeps the list
CopyKeyframes(o, start, end) ==
    /\ o \in DOMAIN timeline.tracks
    /\ last' = Call("copy_keyframes", o, <<start, end>>, None,
                     copy_keyframes(timeline.tracks[o], start, end))
    /\ UNCHANGED <<timeline, players, recorder, lastSet, inflight, pasting>>

\* timeline.tracks[o].paste_keyframes(offset, copied), copied being the list
\* the copy_keyframes call just before returned
PasteCopied(o, offset) ==
    /\ o \in DOMAIN timeline.tracks
    /\ last.op = "copy_keyframes"
    /\ \/ timeline.tracks[o].locked
       \/ Len(timeline.tracks[o].keyframes) + Len(last.result) <= MaxClipKf
    /\ LET r == paste_keyframes(timeline.tracks[o], offset, last.result)
       IN  /\ timeline' = WithTrack(timeline, o, r.self)
           /\ last' = Call("paste_keyframes", o, <<offset>>, r.raised, <<>>)
    /\ UNCHANGED <<players, recorder, lastSet, inflight, pasting>>

\* timeline = rotate_360_preset(object_id, duration)
Rotate360Preset(object_id, duration) ==
    /\ timeline' = rotate_360_preset(object_id, duration)
    /\ last' = Call("rotate_360_preset", object_id, <<duration>>, None, timeline')
    /\ lastSet' = "init"
    /\ UNCHANGED <<players, recorder, inflight, pasting>>

\* timeline = bounce_preset(object_id, height, duration)
BouncePreset(object_id, height, duration) ==
    /\ timeline' = bounce_preset(object_id, height, duration)
    /\ last' = Call("bounce_preset", object_id, <<height, duration>>, None, timeline')
    /\ lastSet' = "init"
    /\ UNCHANGED <<players, recorder, inflight, pasting>>

\* timeline = orbit_preset(object_id, radius, duration)
OrbitPreset(object_id, radius, duration) ==
    /\ timeline' = orbit_preset(object_id, radius, duration)
    /\ last' = Call("orbit_preset", object_id, <<radius, duration>>, None, timeline')
    /\ lastSet' = "init"
    /\ UNCHANGED <<players, recorder, inflight, pasting>>

\* recorder.toggle_record(on)
ToggleRecord(on) ==
    /\ recorder' = toggle_record(recorder, on)
    /\ last' = Call("toggle_record", "recorder", <<>>, None, <<>>)
    /\ UNCHANGED <<timeline, players, lastSet, inflight, pasting>>

\* recorder.record_change(timeline.tracks[o], property_path, value, time, interpolation)
RecordChange(o, kf) ==
    /\ o \in DOMAIN timeline.tracks
    /\ \/ timeline.tracks[o].locked
       \/ ~(recorder.auto_keyframe \/ recorder.record_button_enabled)
       \/ Len(timeline.tracks[o].keyframes) < MaxKf
    /\ LET r == record_change(recorder, timeline.tracks[o], kf.property_path,
                              kf.value, kf.time, kf.interpolation)
       IN  /\ timeline' = WithTrack(timeline, o, r.track)
           /\ last' = Call("record_change", o,
                           <<kf.time, kf.property_path, kf.value, kf.interpolation>>,
                           r.raised, r.result)
    /\ UNCHANGED <<players, recorder, lastSet, inflight, pasting>>

\* the identities of the Keyframe objects several lists of the timeline hold
SharedRefs ==
    UNION {{timeline.tracks[o].keyframes[i].ref : i \in 1..Len(timeline.tracks[o].keyframes)} :
              o \in DOMAIN timeline.tracks} \ {0}

\* kf = recorder.record_change(timeline.tracks[last.target], ...) has just
\* returned; timeline.tracks[o].add_keyframe(kf) adds that same object to a
\* second track.  The object sits in the first track where the stable sort
\* of its add_keyframe put it: last among the keyframes up to its time.
AddRecorded(o) ==
    /\ last.op = "record_change"
    /\ last.raised = None
    /\ o \in DOMAIN timeline.tracks
    /\ last.target \in DOMAIN timeline.tracks
    /\ o # last.target
    /\ timeline.tracks[o].locked \/ Len(timeline.tracks[o].keyframes) < MaxKf
    /\ LET src == timeline.tracks[last.target]
           at  == CHOOSE i \in 1..Len(src.keyframes) :
                     /\ RLeq(src.keyframes[i].time, last.result[1].time)
                     /\ \A j \in (i + 1)..Len(src.keyframes) :
                            RLt(last.result[1].time, src.keyframes[j].time)
           g   == CHOOSE n \in 1..(Cardinality(SharedRefs) + 1) : n \notin SharedRefs
           kf  == [last.result[1] EXCEPT !.ref = g]
           r   == add_keyframe(timeline.tracks[o], kf)
       IN  /\ timeline' = [timeline EXCEPT !.tracks =
                  [p \in DOMAIN timeline.tracks |->
                      IF p = o THEN r.self
                      ELSE IF p = last.target /\ r.raised = None
                      THEN [src EXCEPT !.keyframes[at].ref = g]
                      ELSE timeline.tracks[p]]]
           /\ last' = Call("add_keyframe", o, <<kf>>, r.raised, <<>>)
    /\ UNCHANGED <<players, recorder, lastSet, inflight, pasting>>

\* timeline.tracks[o].sample(time)
TrackSample(o, time) ==
    /\ o \in DOMAIN timeline.tracks
    /\ LET r == track_sample(timeline.tracks[o], time)
       IN  /\ timeline' = WithTrack(timeline, o, r.self)
           /\ last' = Call("track.sample", o, <<time>>, r.raised, r.result)
    /\ UNCHANGED <<players, recorder, lastSet, inflight, pasting>>

\* timeline.sample()
TimelineSample ==
    /\ LET r == timeline_sample(timeline)
       IN  /\ timeline' = r.self
           /\ last' = Call("timeline.sample", "timeline", <<>>, r.raised, r.result)
    /\ UNCHANGED <<players, recorder, lastSet, inflight, pasting>>

\* timeline.seek(time)
Seek(time) ==
    /\ timeline' = seek(timeline, time)
    /\ lastSet' = "seek"
    /\ last' = Call("seek", "timeline", <<time>>, None, <<>>)
    /\ UNCHANGED <<players, recorder, inflight, pasting>>

\* timeline.advance(delta_time)
Advance(delta_time) ==
    /\ timeline' = advance(timeline, delta_time)
    /\ lastSet' = IF timeline.loop THEN "wrap" ELSE "clamp"
    /\ last' = Call("advance", "timeline", <<delta_time>>, None, <<>>)
    /\ UNCHANGED <<players, recorder, inflight, pasting>>

\* timeline.step(frames)
Step(frames) ==
    /\ timeline' = step(timeline, frames)
    /\ lastSet' = IF timeline.loop THEN "wrap" ELSE "clamp"
    /\ last' = Call("step", "timeline", <<frames>>, None, <<>>)
    /\ UNCHANGED <<players, recorder, inflight, pasting>>

\* players[p].play(loop, speed, reverse)
Play(p, loop, speed, reverse) ==
    /\ LET r == play(players[p], timeline, loop, speed, reverse)
       IN  /\ timeline' = r.timeline
           /\ players' = [players EXCEPT ![p] = r.self]
    /\ last' = Call("play", p, <<loop, speed, reverse>>, None, <<>>)
    /\ UNCHANGED <<recorder, lastSet, inflight, pasting>>

\* players[p].pause()
Pause(p) ==
    /\ LET r == pause(players[p], timeline)
       IN  /\ timeline' = r.timeline
           /\ players' = [players EXCEPT ![p] = r.self]
    /\ last' = Call("pause", p, <<>>, None, <<>>)
    /\ UNCHANGED <<recorder, lastSet, inflight, pasting>>

\* players[p].stop()
Stop(p) ==
    /\ LET r == stop(players[p], timeline)
       IN  /\ timeline' = r.timeline
           /\ players' = [players EXCEPT ![p] = r.self]
    /\ lastSet' = "seek"
    /\ last' = Call("stop", p, <<>>, None, <<>>)
    /\ UNCHANGED <<recorder, inflight, pasting>>

\* players[p].update(delta_time)
Update(p, delta_time) ==
    /\ LET r == update(players[p], timeline, delta_time)
       IN  /\ timeline' = r.timeline
           /\ players' = [players EXCEPT ![p] = r.self]
           /\ last' = Call("update", p, <<delta_time>>, r.raised, r.result)
    /\ lastSet' = IF ~players[p].playing THEN lastSet
                  ELSE IF timeline.loop THEN "wrap" ELSE "clamp"
    /\ UNCHANGED <<recorder, inflight, pasting>>

\* players[p].update(delta_time) of a playing player, up to and including the
\* first statement of advance; base is the current_time it read
UpdateRead(p, delta_time) ==
    /\ players[p].playing
    /\ inflight[p].pc = "idle"
    /\ LET delta == RMul(RMul(delta_time, players[p].speed), players[p].direction)
       IN  inflight' = [inflight EXCEPT ![p] =
               [pc |-> "write", delta |-> delta, base |-> timeline.current_time,
                next_time |-> advance_read(timeline, delta)]]
    /\ UNCHANGED <<timeline, players, recorder, last, lastSet, pasting>>

\* the rest of that update call: advance assigns current_time, update
\* samples and returns
UpdateWrite(p) ==
    /\ inflight[p].pc = "write"
    /\ LET s == timeline_sample(
                    advance_write(timeline, inflight[p].delta, inflight[p].next_time))
       IN  /\ timeline' = s.self
           /\ last' = Call("update", p, <<inflight[p].delta>>, s.raised, s.result)
    /\ lastSet' = IF timeline.loop THEN "wrap" ELSE "clamp"
    /\ inflight' = [inflight EXCEPT ![p].pc = "done"]
    /\ UNCHANGED <<players, recorder, pasting>>

\* every update call of the frame has returned; the caller starts the next
EndFrame ==
    /\ \A p \in DOMAIN inflight : inflight[p].pc = "done"
    /\ inflight' = [p \in DOMAIN inflight |-> NoCall]
    /\ last' = Call("end_frame", "", <<>>, None, <<>>)
    /\ UNCHANGED <<timeline, players, recorder, lastSet, pasting>>

----------------------------------------------------------------------------
(* Spec: editing one track, directly and through the recorder *)

Init ==
    /\ timeline = AnimationTimeline(R(2), 60, R(0), FALSE)
    /\ players = [p \in {"p"} |-> AnimationPlayer]
    /\ recorder \in {KeyframeRecorder(b) : b \in BOOLEAN}
    /\ last = Call("init", "", <<>>, None, <<>>)
    /\ lastSet = "init"
    /\ inflight = [p \in DOMAIN players |-> NoCall]
    /\ pasting = NoPaste

Next ==
    \/ AddTrack("a")
    \/ RemoveTrack("a")
    \/ \E b \in BOOLEAN : SetLocked("a", b)
    \/ \E kf \in KfInputs : AddKeyframe("a", kf)
    \/ \E p \in Paths, t \in Times : DeleteKeyframe("a", p, t)
    \/ \E p \in Paths, t \in Times, n \in Times : MoveKeyframe("a", p, t, n)
    \/ \E d \in Offsets, ks \in SeqsUpTo(PasteKfs, MaxPaste) : PasteKeyframes("a", d, ks)
    \/ \E on \in BOOLEAN : ToggleRecord(on)
    \/ \E kf \in PasteKfs : RecordChange("a", kf)

Spec == Init /\ [][Next]_vars

----------------------------------------------------------------------------
(* SpecPlay: the playhead of one timeline, driven directly and by a player *)

Durations == {R(0), R(2), R(3)}
FrameRates == {1, 2}
\* current_time as the constructor or the caller may set it
StartTimes == {R(0), R(-1), R(5)}
SeekTimes == {R(-1), R(1), R(2), R(5)}
Deltas == {R(5), R(-10), R(10), <<-1, 2>>, <<1, 2>>, <<-1, 8>>}
Frames == {1, -1}
Speeds == {R(1), R(2)}
UpdateDeltas == {<<1, 2>>, R(1)}

InitPlay ==
    /\ \E d \in Durations, f \in FrameRates, c \in StartTimes, l \in BOOLEAN :
          timeline = [rotate_360_preset("a", d) EXCEPT
                         !.frame_rate = f, !.current_time = c, !.loop = l]
    /\ players = [p \in {"p"} |-> AnimationPlayer]
    /\ recorder = KeyframeRecorder(TRUE)
    /\ last = Call("init", "", <<>>, None, <<>>)
    /\ lastSet = "init"
    /\ inflight = [p \in DOMAIN players |-> NoCall]
    /\ pasting = NoPaste

NextPlay ==
    \/ \E t \in SeekTimes : Seek(t)
    \/ \E d \in Deltas : Advance(d)
    \/ \E n \in Frames : Step(n)
    \/ \E l \in BOOLEAN, s \in Speeds, r \in BOOLEAN : Play("p", l, s, r)
    \/ Pause("p")
    \/ Stop("p")
    \/ \E d \in UpdateDeltas : Update("p", d)

SpecPlay == InitPlay /\ [][NextPlay]_vars

----------------------------------------------------------------------------
(* SpecSample: sampling tracks that add_keyframe calls have built *)

\* most keyframes of the sampled track
MaxSampleKf == 3

SampleKfs ==
    {Keyframe(R(0), "x", Scalar(R(0)), "linear"),
     Keyframe(R(2), "x", Scalar(R(10)), "ease-in"),
     Keyframe(R(2), "x", Scalar(R(20)), "linear"),
     Keyframe(R(1), "y", Vector(<<R(0), R(0)>>), "linear"),
     Keyframe(R(2), "y", Vector(<<R(10), R(20), R(30)>>), "bezier")}

QueryTimes == {R(-1), R(0), R(1), <<3, 2>>, R(2), R(3)}

\* track "a": any track add_keyframe builds from SampleKfs, muted and locked
\* as the caller set them; track "b": one keyframe, neither muted nor locked
InitSample ==
    /\ \E ks \in SeqsUpTo(SampleKfs, MaxSampleKf), m \in BOOLEAN, l \in BOOLEAN,
          c \in {R(0), R(1)} :
          timeline =
              WithTrack(
                  WithTrack(AnimationTimeline(R(2), 60, c, FALSE), "a",
                      [AddAll(TimelineTrack("a"), ks) EXCEPT !.muted = m, !.locked = l]),
                  "b", AddAll(TimelineTrack("b"),
                              <<Keyframe(R(0), "x", Scalar(R(5)), "linear")>>))
    /\ players = [p \in {"p"} |-> AnimationPlayer]
    /\ recorder = KeyframeRecorder(TRUE)
    /\ last = Call("init", "", <<>>, None, <<>>)
    /\ lastSet = "init"
    /\ inflight = [p \in DOMAIN players |-> NoCall]
    /\ pasting = NoPaste

NextSample ==
    \/ \E t \in QueryTimes : TrackSample("a", t)
    \/ TimelineSample
    \/ \E b \in BOOLEAN : SetMuted("a", b)
    \/ \E b \in BOOLEAN : SetLocked("a", b)

SpecSample == InitSample /\ [][NextSample]_vars

----------------------------------------------------------------------------
(* SpecClip: copying from track "a", pasting into track "b", replacing tracks *)

ClipKfs ==
    {Keyframe(R(0), "x", Scalar(R(0)), "linear"),
     Keyframe(R(1), "x", Scalar(R(10)), "ease-in"),
     Keyframe(<<5, 4>>, "y", Vector(<<R(1), R(2)>>), "bezier"),
     Keyframe(R(2), "x", Scalar(R(20)), "ease-out")}

\* window starts and paste offsets
ClipStarts == {R(0), <<1, 8>>, R(1)}
\* window ends
ClipEnds == {R(1), R(2)}

\* track "a": any track add_keyframe builds from ClipKfs, locked or not;
\* track "b": new
InitClip ==
    /\ \E ks \in SeqsUpTo(ClipKfs, MaxClipKf), l \in BOOLEAN :
          timeline =
              add_track(
                  WithTrack(AnimationTimeline(R(2), 60, R(1), TRUE), "a",
                      [AddAll(TimelineTrack("a"), ks) EXCEPT !.locked = l]),
                  "b")
    /\ players = [p \in {"p"} |-> AnimationPlayer]
    /\ recorder = KeyframeRecorder(TRUE)
    /\ last = Call("init", "", <<>>, None, <<>>)
    /\ lastSet = "init"
    /\ inflight = [p \in DOMAIN players |-> NoCall]
    /\ pasting = NoPaste

NextClip ==
    \/ \E start \in ClipStarts, end \in ClipEnds : CopyKeyframes("a", start, end)
    \/ \E offset \in ClipStarts : PasteCopied("b", offset)
    \/ \E o \in {"a", "b"} : AddTrack(o)
    \/ RemoveTrack("b")

SpecClip == InitClip /\ [][NextClip]_vars

----------------------------------------------------------------------------
(* SpecPreset: building the preset timelines and editing what was built *)

PresetIds == {"a", "b"}
PresetDurations == {R(0), R(1), R(2), R(3)}
\* height of bounce_preset, radius of orbit_preset
PresetSizes == {R(1), <<1, 5>>}
PresetPaths == {"rotation.y", "position.y", "position.x", "position.z"}

\* a timeline nothing was added to
InitPreset ==
    /\ timeline = AnimationTimeline(R(0), 60, R(0), FALSE)
    /\ players = [p \in {"p"} |-> AnimationPlayer]
    /\ recorder = KeyframeRecorder(TRUE)
    /\ last = Call("init", "", <<>>, None, <<>>)
    /\ lastSet = "init"
    /\ inflight = [p \in DOMAIN players |-> NoCall]
    /\ pasting = NoPaste

NextPreset ==
    \/ \E o \in PresetIds, d \in PresetDurations : Rotate360Preset(o, d)
    \/ \E o \in PresetIds, h \in PresetSizes, d \in PresetDurations : BouncePreset(o, h, d)
    \/ \E o \in PresetIds, r \in PresetSizes, d \in PresetDurations : OrbitPreset(o, r, d)
    \/ \E o \in PresetIds, p \in PresetPaths, t \in PresetDurations :
          DeleteKeyframe(o, p, t)
    \/ \E d \in {R(1)} : Advance(d)

SpecPreset == InitPreset /\ [][NextPreset]_vars

----------------------------------------------------------------------------
(* SpecRace: two players wrapping one timeline, their update calls on      *)
(* separate threads, one call per player and frame; advance is two steps   *)

RaceDeltas == {<<1, 2>>}

\* the track is locked and muted, or neither
InitRace ==
    /\ \E g \in BOOLEAN :
          timeline = [rotate_360_preset("a", R(2)) EXCEPT
                         !.tracks["a"].locked = g, !.tracks["a"].muted = g]
    /\ players = [p \in {"p", "q"} |-> AnimationPlayer]
    /\ recorder = KeyframeRecorder(TRUE)
    /\ last = Call("init", "", <<>>, None, <<>>)
    /\ lastSet = "init"
    /\ inflight = [p \in DOMAIN players |-> NoCall]
    /\ pasting = NoPaste

NextRace ==
    \/ \E p \in {"p", "q"}, l \in BOOLEAN, r \in BOOLEAN : Play(p, l, R(1), r)
    \/ \E p \in {"p", "q"}, d \in RaceDeltas : UpdateRead(p, d)
    \/ \E p \in {"p", "q"} : UpdateWrite(p)
    \/ EndFrame

SpecRace == InitRace /\ [][NextRace]_vars

----------------------------------------------------------------------------
(* SpecPaste: paste_keyframes followed through its loop, given a list of the *)
(* caller's or the track's own keyframes list                                *)

\* track "a": any track add_keyframe builds from PasteKfs, locked or not
InitPaste ==
    /\ \E ks \in SeqsUpTo(PasteKfs, MaxPaste), l \in BOOLEAN :
          timeline =
              WithTrack(AnimationTimeline(R(2), 60, R(0), FALSE), "a",
                  [AddAll(TimelineTrack("a"), ks) EXCEPT !.locked = l])
    /\ players = [p \in {"p"} |-> AnimationPlayer]
    /\ recorder = KeyframeRecorder(TRUE)
    /\ last = Call("init", "", <<>>, None, <<>>)
    /\ lastSet = "init"
    /\ inflight = [p \in DOMAIN players |-> NoCall]
    /\ pasting = NoPaste

NextPaste ==
    \/ \E d \in Offsets, ks \in SeqsUpTo(PasteKfs, MaxPaste) : PasteBegin("a", d, ks)
    \/ \E d \in Offsets : PasteOwnBegin("a", d)
    \/ PasteIterate
    \/ PasteExit

SpecPaste == InitPaste /\ [][NextPaste]_vars

----------------------------------------------------------------------------
(* SpecShare: two tracks edited in turn, a recorded keyframe added to both  *)

ShareIds == {"a", "b"}
ShareTimes == {R(0), R(1)}
ShareKf == Keyframe(R(1), "x", Scalar(R(10)), "ease-in")

\* tracks "a" and "b", new
InitShare ==
    /\ timeline = add_track(add_track(AnimationTimeline(R(2), 60, R(0), FALSE), "a"), "b")
    /\ players = [p \in {"p"} |-> AnimationPlayer]
    /\ recorder = KeyframeRecorder(TRUE)
    /\ last = Call("init", "", <<>>, None, <<>>)
    /\ lastSet = "init"
    /\ inflight = [p \in DOMAIN players |-> NoCall]
    /\ pasting = NoPaste

NextShare ==
    \/ \E t \in ShareTimes :
          RecordChange("a", Keyframe(t, "x", Scalar(R(0)), "linear"))
    \/ AddRecorded("b")
    \/ \E o \in ShareIds : AddKeyframe(o, ShareKf)
    \/ \E o \in ShareIds, t \in ShareTimes : DeleteKeyframe(o, "x", t)
    \/ \E o \in ShareIds, t \in ShareTimes, n \in ShareTimes : MoveKeyframe(o, "x", t, n)
    \/ \E o \in ShareIds : PasteKeyframes(o, R(-1), <<ShareKf>>)

SpecShare == InitShare /\ [][NextShare]_vars

----------------------------------------------------------------------------
(* SpecDuo: two players wrapping one timeline, their calls one after the    *)
(* other; player "q" passes loop = False to every play call                 *)

DuoDeltas == {R(1), <<3, 2>>}

InitDuo ==
    /\ \E l \in BOOLEAN : timeline = [rotate_360_preset("a", R(2)) EXCEPT !.loop = l]
    /\ players = [p \in {"p", "q"} |-> AnimationPlayer]
    /\ recorder = KeyframeRecorder(TRUE)
    /\ last = Call("init", "", <<>>, None, <<>>)
    /\ lastSet = "init"
    /\ inflight = [p \in DOMAIN players |-> NoCall]
    /\ pasting = NoPaste

NextDuo ==
    \/ \E l \in BOOLEAN, r \in BOOLEAN : Play("p", l, R(1), r)
    \/ Play("q", FALSE, R(1), FALSE)
    \/ \E p \in {"p", "q"} : Pause(p)
    \/ \E p \in {"p", "q"} : Stop(p)
    \/ \E p \in {"p", "q"}, d \in DuoDeltas : Update(p, d)

SpecDuo == InitDuo /\ [][NextDuo]_vars

----------------------------------------------------------------------------
(* SpecRun: one player driven by a caller that keeps calling update         *)

RunDurations == {R(2), R(5)}
RunDeltas == {<<1, 2>>, R(1)}
RunSpeeds == {R(1), R(2)}

InitRun ==
    /\ \E d \in RunDurations : timeline = rotate_360_preset("a", d)
    /\ players = [p \in {"p"} |-> AnimationPlayer]
    /\ recorder = KeyframeRecorder(TRUE)
    /\ last = Call("init", "", <<>>, None, <<>>)
    /\ lastSet = "init"
    /\ inflight = [p \in DOMAIN players |-> NoCall]
    /\ pasting = NoPaste

\* the caller's frame loop: a frame of length delta_time has elapsed and the
\* caller is about to pass it to update
FrameBegin(p, delta_time) ==
    /\ inflight[p].pc = "idle"
    /\ inflight' = [inflight EXCEPT ![p] = [NoCall EXCEPT !.pc = "frame", !.delta = delta_time]]
    /\ UNCHANGED <<timeline, players, recorder, last, lastSet, pasting>>

\* the frame's call player.update(delta_time), and its return to the loop
FrameUpdate(p) ==
    /\ inflight[p].pc = "frame"
    /\ LET delta_time == inflight[p].delta
           r == update(players[p], timeline, delta_time)
       IN  /\ timeline' = r.timeline
           /\ players' = [players EXCEPT ![p] = r.self]
           /\ last' = Call("update", p, <<delta_time>>, r.raised, r.result)
    /\ lastSet' = IF ~players[p].playing THEN lastSet
                  ELSE IF timeline.loop THEN "wrap" ELSE "clamp"
    /\ inflight' = [inflight EXCEPT ![p] = NoCall]
    /\ UNCHANGED <<recorder, pasting>>

NextRun ==
    \/ \E l \in BOOLEAN, s \in RunSpeeds, r \in BOOLEAN : Play("p", l, s, r)
    \/ Pause("p")
    \/ Stop("p")
    \/ \E d \in RunDeltas : FrameBegin("p", d)
    \/ FrameUpdate("p")

\* the caller's frame loop keeps running: frames keep elapsing
SpecRun ==
    InitRun /\ [][NextRun]_vars /\ WF_vars(\E d \in RunDeltas : FrameBegin("p", d))

----------------------------------------------------------------------------
(* SpecDup: keyframes sharing a property path and a time *)

DupKfs ==
    {Keyframe(R(1), "x", Scalar(R(10)), "linear"),
     Keyframe(R(1), "x", Scalar(R(20)), "ease-in"),
     Keyframe(R(2), "x", Scalar(R(40)), "bezier"),
     Keyframe(R(1), "y", Vector(<<R(0), R(0), R(0)>>), "linear"),
     Keyframe(R(2), "y", Vector(<<R(8), R(8)>>), "ease-out")}

DupTimes == {R(1), <<3, 2>>, R(2)}

MaxDupKf == 3

InitDup ==
    /\ timeline = add_track(AnimationTimeline(R(2), 60, R(0), FALSE), "a")
    /\ players = [p \in {"p"} |-> AnimationPlayer]
    /\ recorder = KeyframeRecorder(TRUE)
    /\ last = Call("init", "", <<>>, None, <<>>)
    /\ lastSet = "init"
    /\ inflight = [p \in DOMAIN players |-> NoCall]
    /\ pasting = NoPaste

\* track.add_keyframe(kf) on a track of fewer than MaxDupKf keyframes
AddDup(o, kf) ==
    /\ Len(timeline.tracks[o].keyframes) < MaxDupKf
    /\ LET r == add_keyframe(timeline.tracks[o], kf)
       IN  /\ timeline' = WithTrack(timeline, o, r.self)
           /\ last' = Call("add_keyframe", o, <<kf>>, r.raised, <<>>)
    /\ UNCHANGED <<players, recorder, lastSet, inflight, pasting>>

NextDup ==
    \/ \E kf \in DupKfs : AddDup("a", kf)
    \/ \E t \in DupTimes : TrackSample("a", t)

SpecDup == InitDup /\ [][NextDup]_vars

----------------------------------------------------------------------------
(* properties of Spec *)

IsSortedByTime(keyframes) ==
    \A i \in 1..Len(keyframes) - 1 : RLeq(keyframes[i].time, keyframes[i + 1].time)

EditOps == {"add_keyframe", "delete_keyframe", "move_keyframe", "paste_keyframes"}

\* C1: after any sequence of add_keyframe, move_keyframe, paste_keyframes and
\* delete_keyframe calls on a track that started empty, its keyframes are
\* non-decreasing by time.
C1_SortInvariant ==
    \A o \in DOMAIN timeline.tracks : IsSortedByTime(timeline.tracks[o].keyframes)

\* C1 witness: a move has just run on a track that holds two keyframes at
\* different times.
C1_Witness ==
    /\ last.op = "move_keyframe"
    /\ last.raised = None
    /\ Len(timeline.tracks[last.target].keyframes) >= 2
    /\ RLt(timeline.tracks[last.target].keyframes[1].time,
           timeline.tracks[last.target].keyframes[2].time)

\* C2: an edit call on a locked track raises the lock error and leaves the
\* track (so its keyframes, length and contents) as it was.
C2_LockedEditsFail ==
    [][(last'.op \in EditOps /\ timeline.tracks[last'.target].locked)
          => (last'.raised = LockedError /\ timeline' = timeline)]_vars

\* C2 witness: paste_keyframes has just failed on a locked track that holds
\* keyframes.
C2_Witness ==
    /\ last.op = "paste_keyframes"
    /\ last.raised = LockedError
    /\ timeline.tracks[last.target].locked
    /\ Len(timeline.tracks[last.target].keyframes) >= 1

\* C8: record_change with both recorder flags false raises the
\* recording-disabled error and leaves the target track as it was; with either
\* flag true it does not raise that error.
C8_RecorderGate ==
    [][last'.op = "record_change"
          => IF ~(recorder.auto_keyframe \/ recorder.record_button_enabled)
             THEN last'.raised = RecordingDisabledError /\ timeline' = timeline
             ELSE last'.raised # RecordingDisabledError]_vars

\* C8 witness: record_change has just been rejected on an unlocked track by a
\* recorder built with auto_keyframe = False whose record button is off.
C8_Witness ==
    /\ last.op = "record_change"
    /\ last.raised = RecordingDisabledError
    /\ ~recorder.auto_keyframe /\ ~recorder.record_button_enabled
    /\ ~timeline.tracks[last.target].locked

\* ks without its i-th element
Without(ks, i) == [j \in 1..(Len(ks) - 1) |-> IF j < i THEN ks[j] ELSE ks[j + 1]]

\* C20: with recording enabled, record_change on a locked track fails with
\* the LockedError of a direct add_keyframe and leaves the timeline as it
\* was; on an unlocked track it returns a keyframe with the given time,
\* property path, value and curve mode, and the track afterwards holds that
\* keyframe and the keyframes it held before, sorted by time.
C20_RecorderLock ==
    [][(last'.op = "record_change"
           /\ (recorder.auto_keyframe \/ recorder.record_button_enabled))
          => LET track == timeline.tracks[last'.target]
                 after == timeline'.tracks[last'.target].keyframes
                 given == Keyframe(last'.args[1], last'.args[2],
                                   last'.args[3], last'.args[4])
             IN  IF track.locked
                 THEN /\ last'.raised = LockedError
                      /\ last'.raised = add_keyframe(track, given).raised
                      /\ last'.result = <<>>
                      /\ timeline' = timeline
                 ELSE /\ last'.raised = None
                      /\ last'.result = <<given>>
                      /\ IsSortedByTime(after)
                      /\ \E i \in 1..Len(after) :
                            /\ after[i] = given
                            /\ Without(after, i) = track.keyframes]_vars

\* C20 witness: with the record button on, record_change has just been
\* rejected with LockedError on a locked track that holds a keyframe.
C20_Witness ==
    /\ last.op = "record_change"
    /\ last.raised = LockedError
    /\ recorder.record_button_enabled
    /\ timeline.tracks[last.target].locked
    /\ Len(timeline.tracks[last.target].keyframes) >= 1

----------------------------------------------------------------------------
(* properties of SpecPlay *)

\* 0 <= current_time <= duration
InRange(tl) == RLeq(R(0), tl.current_time) /\ RLeq(tl.current_time, tl.duration)

\* C3, as stated: once an advance or a seek has run, loop = true implies
\* 0 <= current_time < duration (current_time = 0 when duration = 0).
C3_Original ==
    (lastSet # "init" /\ timeline.loop)
        => IF RLt(R(0), timeline.duration)
           THEN RLeq(R(0), timeline.current_time)
                /\ RLt(timeline.current_time, timeline.duration)
           ELSE timeline.current_time = R(0)

\* C3, amended: once an advance or a seek has run, loop = true implies
\* 0 <= current_time <= duration.
C3_LoopRange ==
    (lastSet # "init" /\ timeline.loop) => InRange(timeline)

\* C3 witness: loop is true and the playhead sits at duration > 0, put there
\* by seek, or by a clamping advance before play switched loop on.
C3_Witness ==
    /\ timeline.loop
    /\ lastSet \in {"seek", "clamp"}
    /\ RLt(R(0), timeline.duration)
    /\ timeline.current_time = timeline.duration

\* C4: once an advance, a step or a seek has run (directly or through
\* update or stop), loop = false implies 0 <= current_time <= duration.
C4_ClampRange ==
    (lastSet # "init" /\ ~timeline.loop) => InRange(timeline)

\* C4 witness: loop is false and a clamping advance has left the playhead at
\* duration > 0.
C4_Witness ==
    /\ ~timeline.loop
    /\ lastSet = "clamp"
    /\ RLt(R(0), timeline.duration)
    /\ timeline.current_time = timeline.duration

\* C5: update on a player that is not playing changes nothing of the timeline,
\* its tracks, the player or the recorder, and returns what timeline.sample()
\* returns in that state.
C5_IdleUpdate ==
    [][(last'.op = "update" /\ ~players[last'.target].playing)
          => /\ timeline' = timeline
             /\ players' = players
             /\ recorder' = recorder
             /\ last'.raised = timeline_sample(timeline).raised
             /\ last'.result = timeline_sample(timeline).result]_vars

\* C5 witness: update has just returned a snapshot with a value in it on a
\* player that is not playing, the playhead having been advanced before.
C5_Witness ==
    /\ last.op = "update"
    /\ ~players[last.target].playing
    /\ lastSet \in {"wrap", "clamp"}
    /\ RLt(R(0), timeline.current_time)
    /\ \E o \in DOMAIN last.result : DOMAIN last.result[o] # {}

\* C9: with loop = true and duration > 0, advance(delta_time) leaves
\* current_time in [0, duration) and differing from the float sum
\* current_time + delta_time by a whole number of durations; with
\* duration = 0 it leaves current_time = 0.
C9_LoopWrap ==
    [][(last'.op = "advance" /\ timeline.loop)
          => LET next == Fl(RAdd(timeline.current_time, last'.args[1]))
                 new  == timeline'.current_time
             IN  IF RLt(R(0), timeline.duration)
                 THEN /\ RLeq(R(0), new)
                      /\ RLt(new, timeline.duration)
                      /\ RDiv(RSub(next, new), timeline.duration)[2] = 1
                 ELSE new = R(0)]_vars

\* C10: with loop = false, advance(delta_time) leaves current_time at the
\* float sum current_time + delta_time clamped into [0, duration].
C10_Clamp ==
    [][(last'.op = "advance" /\ ~timeline.loop)
          => LET next == Fl(RAdd(timeline.current_time, last'.args[1]))
                 new  == timeline'.current_time
             IN  new = IF RLt(next, R(0)) THEN R(0)
                       ELSE IF RLt(timeline.duration, next) THEN timeline.duration
                       ELSE next]_vars

\* C10 witness: with loop = false and duration = 2, advance(-10) has left the
\* playhead at 0.
C10_Witness ==
    /\ last.op = "advance"
    /\ last.args = <<R(-10)>>
    /\ ~timeline.loop
    /\ timeline.duration = R(2)
    /\ timeline.current_time = R(0)

\* C18: stop() leaves playing false and current_time = 0 whatever loop, speed
\* and direction are; while the player is not playing and current_time is 0,
\* an update call on it leaves both so (until play, seek, step or advance is
\* called); pause() sets playing = false and leaves the timeline as it was.
C18_StopResets ==
    [][/\ last'.op = "stop"
             => /\ ~players'[last'.target].playing
                /\ timeline'.current_time = R(0)
                /\ timeline'.loop = timeline.loop
                /\ players'[last'.target].speed = players[last'.target].speed
                /\ players'[last'.target].direction = players[last'.target].direction
       /\ (last'.op = "update" /\ ~players[last'.target].playing
              /\ timeline.current_time = R(0))
             => /\ ~players'[last'.target].playing
                /\ timeline'.current_time = R(0)
       /\ last'.op = "pause"
             => /\ ~players'[last'.target].playing
                /\ timeline' = timeline]_vars

\* C18 witness: stop() has just put the playhead of a looping timeline of
\* duration 2 at 0, on a player that was played in reverse at speed 2.
C18_Witness ==
    /\ last.op = "stop"
    /\ ~players["p"].playing
    /\ players["p"].speed = R(2)
    /\ players["p"].direction = R(-1)
    /\ timeline.loop
    /\ timeline.duration = R(2)
    /\ timeline.current_time = R(0)

\* C19: play(loop, speed, reverse) stores speed and direction (-1 iff
\* reverse) and no other call changes them; when playing is true,
\* update(delta_time) advances the timeline once by
\* delta_time * speed * direction and returns timeline.sample() evaluated at
\* the new current_time.
C19_UpdateAdvances ==
    [][/\ last'.op = "play"
             => /\ players'[last'.target].playing
                /\ players'[last'.target].speed = last'.args[2]
                /\ players'[last'.target].direction
                      = IF last'.args[3] THEN R(-1) ELSE R(1)
       /\ last'.op # "play"
             => \A p \in DOMAIN players :
                   /\ players'[p].speed = players[p].speed
                   /\ players'[p].direction = players[p].direction
       /\ (last'.op = "update" /\ players[last'.target].playing)
             => LET self == players[last'.target]
                    moved == advance(timeline,
                                 RMul(RMul(last'.args[1], self.speed), self.direction))
                IN  /\ timeline' = moved
                    /\ last'.raised = None
                    /\ last'.result = timeline_sample(moved).result
                    /\ players' = players]_vars

\* C19 witness: update(1/2) on a player playing in reverse at speed 2 has
\* just moved the playhead of a looping timeline of duration 2 to 1 and
\* returned rotation.y = 180, the value at 1.
C19_Witness ==
    /\ last.op = "update"
    /\ last.args = <<<<1, 2>>>>
    /\ players["p"].playing
    /\ players["p"].speed = R(2)
    /\ players["p"].direction = R(-1)
    /\ lastSet = "wrap"
    /\ timeline.duration = R(2)
    /\ timeline.current_time = R(1)
    /\ last.result["a"]["rotation.y"] = Scalar(R(180))

----------------------------------------------------------------------------
(* properties of SpecSample *)

SampleOps == {"track.sample", "timeline.sample"}

\* C6: sample on a muted track returns the empty mapping for every query
\* time, whatever its keyframes and its lock state, and timeline.sample() maps
\* the id of a muted track to the empty mapping.
C6_MutePrecedence ==
    [][/\ (last'.op = "track.sample" /\ timeline.tracks[last'.target].muted)
             => (last'.raised = None /\ last'.result = EmptyMap)
       /\ (last'.op = "timeline.sample" /\ last'.raised = None)
             => \A o \in DOMAIN timeline.tracks :
                    timeline.tracks[o].muted
                        => (o \in DOMAIN last'.result /\ last'.result[o] = EmptyMap)]_vars

\* C6 witness: timeline.sample() has just mapped a muted, locked track that
\* holds keyframes to the empty mapping, next to a track it mapped to values.
C6_Witness ==
    /\ last.op = "timeline.sample"
    /\ last.raised = None
    /\ timeline.tracks["a"].muted
    /\ timeline.tracks["a"].locked
    /\ Len(timeline.tracks["a"].keyframes) >= 2
    /\ last.result["a"] = EmptyMap
    /\ DOMAIN last.result["b"] # {}

\* C7: track.sample(t) and timeline.sample() leave the timeline (its tracks'
\* keyframes, muted and locked, the track mapping, current_time, loop), the
\* players and the recorder as they were, and a second call with the same
\* argument right after the first returns the same result.
C7_SamplePure ==
    [][last'.op \in SampleOps
          => /\ timeline' = timeline
             /\ players' = players
             /\ recorder' = recorder
             /\ (last.op = last'.op /\ last.target = last'.target
                    /\ last.args = last'.args)
                   => (last'.raised = last.raised /\ last'.result = last.result)]_vars

\* C7 witness: sample(1) has just returned values for two paths of an unmuted
\* track holding three keyframes.
C7_Witness ==
    /\ last.op = "track.sample"
    /\ last.args = <<R(1)>>
    /\ last.raised = None
    /\ ~timeline.tracks[last.target].muted
    /\ Len(timeline.tracks[last.target].keyframes) >= 3
    /\ DOMAIN last.result = {"x", "y"}

\* indices of the keyframes of path p in the list ks
OfPath(ks, p) == {i \in 1..Len(ks) : ks[i].property_path = p}

\* the last keyframe of path p with time <= q, as a set of at most one index
BeforeAt(ks, p, q) ==
    {i \in OfPath(ks, p) :
        /\ RLeq(ks[i].time, q)
        /\ \A j \in OfPath(ks, p) : RLeq(ks[j].time, q) => j <= i}

\* the first keyframe of path p with time > q, as a set of at most one index
AfterAt(ks, p, q) ==
    {i \in OfPath(ks, p) :
        /\ RLt(q, ks[i].time)
        /\ \A j \in OfPath(ks, p) : RLt(q, ks[j].time) => i <= j}

\* (q - before.time) / (after.time - before.time)
Progress(b, a, q) == RDiv(RSub(q, b.time), RSub(a.time, b.time))

\* C11: sample(q) on an unmuted track has exactly the paths that have
\* keyframes; a path's value is its first keyframe's value when q is before
\* all of them, its last keyframe's value when q is at or after the last,
\* and otherwise the interpolation between before (greatest time <= q) and
\* after (smallest time > q) at t = (q - before.time)/(after.time - before.time).
C11_SampleValue ==
    [][(last'.op = "track.sample" /\ ~timeline.tracks[last'.target].muted
           /\ last'.raised = None)
          => LET ks == timeline.tracks[last'.target].keyframes
                 q  == last'.args[1]
                 res == last'.result
             IN  /\ DOMAIN res = {ks[i].property_path : i \in 1..Len(ks)}
                 /\ \A p \in DOMAIN res :
                        LET idx == OfPath(ks, p)
                            first == CHOOSE i \in idx : \A j \in idx : i <= j
                            final == CHOOSE i \in idx : \A j \in idx : j <= i
                        IN  IF \A i \in idx : RLt(q, ks[i].time)
                            THEN res[p] = ks[first].value
                            ELSE IF RLeq(ks[final].time, q)
                            THEN res[p] = ks[final].value
                            ELSE \E b \in BeforeAt(ks, p, q), a \in AfterAt(ks, p, q) :
                                 \E m \in {ks[b].interpolation, ks[a].interpolation} :
                                    res[p] = lerp(ks[b].value, ks[a].value,
                                                  Progress(ks[b], ks[a], q), m).value]_vars

\* C11 witness: on the track (0, x, 0, linear), (2, x, 20, linear), sample(1)
\* has just returned x = 10 and no other path.
C11_Witness ==
    /\ last.op = "track.sample"
    /\ last.target = "a"
    /\ last.args = <<R(1)>>
    /\ last.raised = None
    /\ ~timeline.tracks["a"].muted
    /\ timeline.tracks["a"].keyframes =
           <<Keyframe(R(0), "x", Scalar(R(0)), "linear"),
             Keyframe(R(2), "x", Scalar(R(20)), "linear")>>
    /\ DOMAIN last.result = {"x"}
    /\ last.result["x"] = Scalar(R(10))

\* the paths of ks that sample(q) interpolates between two keyframes carrying
\* different curve modes, as <<path, before index, after index>>
MixedSpans(ks, q) ==
    {s \in {ks[i].property_path : i \in 1..Len(ks)} \X (1..Len(ks)) \X (1..Len(ks)) :
        /\ s[2] \in BeforeAt(ks, s[1], q)
        /\ s[3] \in AfterAt(ks, s[1], q)
        /\ ks[s[2]].interpolation # ks[s[3]].interpolation}

\* C12: when sample(q) falls strictly between two keyframes of a path that
\* carry different curve modes, the value is the one the curve mode of the
\* after keyframe gives, and not the one the before keyframe's mode gives
\* where the two differ.
C12_AfterMode ==
    [][(last'.op = "track.sample" /\ ~timeline.tracks[last'.target].muted
           /\ last'.raised = None)
          => LET ks == timeline.tracks[last'.target].keyframes
                 q  == last'.args[1]
             IN  \A s \in MixedSpans(ks, q) :
                    LET b == ks[s[2]]
                        a == ks[s[3]]
                        t == Progress(b, a, q)
                        byAfter  == lerp(b.value, a.value, t, a.interpolation).value
                        byBefore == lerp(b.value, a.value, t, b.interpolation).value
                    IN  /\ last'.result[s[1]] = byAfter
                        /\ byBefore # byAfter => last'.result[s[1]] # byBefore]_vars

\* C12 witness: on the track (0, x, 0, linear), (2, x, 10, ease-in), sample(1)
\* has just returned x = 10 * (1/2)^2 = 5/2, where linear gives 5.
C12_Witness ==
    /\ last.op = "track.sample"
    /\ last.target = "a"
    /\ last.args = <<R(1)>>
    /\ last.raised = None
    /\ ~timeline.tracks["a"].muted
    /\ timeline.tracks["a"].keyframes =
           <<Keyframe(R(0), "x", Scalar(R(0)), "linear"),
             Keyframe(R(2), "x", Scalar(R(10)), "ease-in")>>
    /\ last.result["x"] = Scalar(<<5, 2>>)

\* the paths of ks for which q lies strictly between two keyframes whose
\* vector values differ in length
RaggedSpans(ks, q) ==
    {p \in {ks[i].property_path : i \in 1..Len(ks)} :
        \E b \in BeforeAt(ks, p, q), a \in AfterAt(ks, p, q) :
            /\ RLt(ks[b].time, q)
            /\ ks[b].value.kind = "vector"
            /\ ks[a].value.kind = "vector"
            /\ Len(ks[b].value.v) # Len(ks[a].value.v)}

\* C14: sample(q) on an unmuted track, with q between two keyframes of one
\* path whose vector values differ in length, fails (ShapeMismatchError)
\* instead of returning a value.
C14_ShapeMismatch ==
    [][(last'.op = "track.sample" /\ ~timeline.tracks[last'.target].muted
           /\ RaggedSpans(timeline.tracks[last'.target].keyframes, last'.args[1]) # {})
          => last'.raised # None]_vars

----------------------------------------------------------------------------
(* properties of SpecClip *)

\* the keyframes of ks with start <= time <= end, in the order of ks
InWindowOf(ks, start, end) ==
    LET Inside(kf) == RLeq(start, kf.time) /\ RLeq(kf.time, end)
    IN  SelectSeq(ks, Inside)

\* copy_keyframes(start, end) has returned the keyframes of its track that
\* lie in the window, rebased, and has left the timeline as it was
CopyExact ==
    last'.op = "copy_keyframes"
       => LET src == InWindowOf(timeline.tracks[last'.target].keyframes,
                                last'.args[1], last'.args[2])
              out == last'.result
          IN  /\ timeline' = timeline
              /\ last'.raised = None
              /\ Len(out) = Len(src)
              /\ \A i \in 1..Len(src) :
                    /\ out[i].time = Fl(RSub(src[i].time, last'.args[1]))
                    /\ out[i].property_path = src[i].property_path
                    /\ out[i].value = src[i].value
                    /\ out[i].interpolation = src[i].interpolation

\* the list copy_keyframes(start, end) returned is being pasted with
\* offset = start into an empty unlocked track
PasteBack ==
    /\ last.op = "copy_keyframes"
    /\ last'.op = "paste_keyframes"
    /\ last'.args = <<last.args[1]>>
    /\ timeline.tracks[last'.target].keyframes = <<>>
    /\ ~timeline.tracks[last'.target].locked

\* C13 as stated: copy_keyframes(start, end) returns exactly the source
\* keyframes with start <= time <= end, rebased to time - start, and leaves
\* the source track unchanged, also when it is locked; pasting the result
\* with offset = start into an empty unlocked track yields keyframes with the
\* original absolute times, property paths, values and curve modes.
C13_Original ==
    [][/\ CopyExact
       /\ PasteBack
             => LET src == InWindowOf(timeline.tracks[last.target].keyframes,
                                      last.args[1], last.args[2])
                    out == timeline'.tracks[last'.target].keyframes
                IN  /\ last'.raised = None
                    /\ Len(out) = Len(src)
                    /\ \A i \in 1..Len(src) :
                          /\ out[i].time = src[i].time
                          /\ out[i].property_path = src[i].property_path
                          /\ out[i].value = src[i].value
                          /\ out[i].interpolation = src[i].interpolation]_vars

\* C13, amended: as C13_Original, except that a pasted keyframe's time is the
\* float (time - start) + start, which is the original time whenever the
\* float time - start is exact.
C13_RoundTrip ==
    [][/\ CopyExact
       /\ PasteBack
             => LET src == InWindowOf(timeline.tracks[last.target].keyframes,
                                      last.args[1], last.args[2])
                    out == timeline'.tracks[last'.target].keyframes
                    start == last.args[1]
                IN  /\ last'.raised = None
                    /\ Len(out) = Len(src)
                    /\ \A i \in 1..Len(src) :
                          /\ out[i].time = Fl(RAdd(Fl(RSub(src[i].time, start)), start))
                          /\ Fl(RSub(src[i].time, start)) = RSub(src[i].time, start)
                                => out[i].time = src[i].time
                          /\ out[i].property_path = src[i].property_path
                          /\ out[i].value = src[i].value
                          /\ out[i].interpolation = src[i].interpolation]_vars

\* C13 witness: the locked track (1, x, 10, ease-in), (2, x, 20, ease-out) was
\* copied over the window [1, 2] and the copy has just been pasted with
\* offset 1 into the empty track "b", which now holds the same two keyframes.
C13_Witness ==
    /\ last.op = "paste_keyframes"
    /\ last.target = "b"
    /\ last.args = <<R(1)>>
    /\ last.raised = None
    /\ timeline.tracks["a"].locked
    /\ timeline.tracks["a"].keyframes =
           <<Keyframe(R(1), "x", Scalar(R(10)), "ease-in"),
             Keyframe(R(2), "x", Scalar(R(20)), "ease-out")>>
    /\ timeline.tracks["b"].keyframes = timeline.tracks["a"].keyframes

\* C16: add_track(object_id) never fails; afterwards tracks[object_id] is a
\* new track with no keyframes, muted = false and locked = false, also when a
\* track with that id existed (locked or not); every track under another id,
\* and current_time, duration and loop, are unchanged.
C16_AddTrackFresh ==
    [][last'.op = "add_track"
          => LET id == last'.target
             IN  /\ last'.raised = None
                 /\ DOMAIN timeline'.tracks = DOMAIN timeline.tracks \cup {id}
                 /\ timeline'.tracks[id] =
                        [object_id |-> id, keyframes |-> <<>>,
                         muted |-> FALSE, locked |-> FALSE]
                 /\ \A o \in DOMAIN timeline.tracks \ {id} :
                        timeline'.tracks[o] = timeline.tracks[o]
                 /\ timeline'.current_time = timeline.current_time
                 /\ timeline'.duration = timeline.duration
                 /\ timeline'.loop = timeline.loop]_vars

\* C16 witness: add_track("a") has just left track "a" empty and unlocked
\* while track "b" still holds the two keyframes pasted into it, with the
\* playhead at 1 and loop on.
C16_Witness ==
    /\ last.op = "add_track"
    /\ last.target = "a"
    /\ timeline.tracks["a"].keyframes = <<>>
    /\ ~timeline.tracks["a"].locked
    /\ "b" \in DOMAIN timeline.tracks
    /\ Len(timeline.tracks["b"].keyframes) = 2
    /\ timeline.current_time = R(1)
    /\ timeline.loop

----------------------------------------------------------------------------
(* properties of SpecPreset *)

PresetOps == {"rotate_360_preset", "bounce_preset", "orbit_preset"}

Unmatched(ks, property_path, time) ==
    {i \in 1..Len(ks) : ~(ks[i].property_path = property_path /\ ks[i].time = time)}

\* C22: delete_keyframe(property_path, time) on an unlocked track returns
\* normally and leaves exactly the keyframes whose path or time differs, in
\* their previous order: every duplicate of the pair is removed; when no
\* keyframe matches, the timeline is unchanged.
C22_DeleteAll ==
    [][(last'.op = "delete_keyframe" /\ ~timeline.tracks[last'.target].locked)
          => LET before == timeline.tracks[last'.target].keyframes
                 after  == timeline'.tracks[last'.target].keyframes
                 keep   == Unmatched(before, last'.args[1], last'.args[2])
             IN  /\ last'.raised = None
                 /\ Len(after) = Cardinality(keep)
                 /\ \A i \in keep :
                        after[Cardinality({j \in keep : j <= i})] = before[i]
                 /\ \A o \in DOMAIN timeline.tracks \ {last'.target} :
                        timeline'.tracks[o] = timeline.tracks[o]
                 /\ keep = 1..Len(before) => timeline' = timeline]_vars

\* C22 witness: delete_keyframe("position.x", 0) has just left the two
\* position.z keyframes, in their order, of the five keyframes that
\* orbit_preset(_, 1, 0) puts at time 0: it removed all three position.x ones.
C22_Witness ==
    /\ last.op = "delete_keyframe"
    /\ last.args = <<"position.x", R(0)>>
    /\ last.raised = None
    /\ timeline.duration = R(0)
    /\ ~timeline.tracks[last.target].locked
    /\ timeline.tracks[last.target].keyframes =
           <<Keyframe(R(0), "position.z", Scalar(R(1)), "linear"),
             Keyframe(R(0), "position.z", Scalar(R(-1)), "linear")>>

----------------------------------------------------------------------------
(* properties of SpecPaste *)

\* the keyframes the paste_keyframes call under way was passed, as they were
\* when it was called
PassedIn == IF pasting.own THEN pasting.before ELSE pasting.given

\* C23: a paste_keyframes call on an unlocked track terminates, whatever
\* list it is passed, the track's own keyframes list included: its loop runs
\* once per keyframe passed in, so the track never holds more than the
\* keyframes it held plus those passed in, and when the call has returned the
\* track holds exactly these, each passed-in one at time + offset with its
\* path, value and curve mode.
C23_PasteTerminates ==
    pasting.pc # "idle"
       => LET track == timeline.tracks[pasting.target]
              start == [track EXCEPT !.keyframes = pasting.before]
          IN  /\ pasting.i <= Len(PassedIn) + 1
              /\ Len(track.keyframes) <= Len(pasting.before) + Len(PassedIn)
              /\ pasting.pc = "done"
                    => /\ last.raised = None
                       /\ track.keyframes =
                             paste_keyframes(start, pasting.offset, PassedIn).self.keyframes

----------------------------------------------------------------------------
(* properties of SpecShare *)

\* what the keyframes of a list hold: time, path, value and curve mode
Fields(keyframes) ==
    [i \in 1..Len(keyframes) |->
        <<keyframes[i].time, keyframes[i].property_path,
          keyframes[i].value, keyframes[i].interpolation>>]

\* C24: an add_keyframe, delete_keyframe, move_keyframe or paste_keyframes
\* call on one track leaves the keyframes of every other track as they were
\* (the same keyframes, with the same times, in the same order), so sorted by
\* time if they were, also when a Keyframe that record_change returned was
\* added to both tracks and is moved on one of them.
C24_OtherTracksKept ==
    [][last'.op \in EditOps
          => \A o \in DOMAIN timeline.tracks \ {last'.target} :
                /\ o \in DOMAIN timeline'.tracks
                /\ Fields(timeline'.tracks[o].keyframes) = Fields(timeline.tracks[o].keyframes)
                /\ IsSortedByTime(timeline.tracks[o].keyframes)
                      => IsSortedByTime(timeline'.tracks[o].keyframes)]_vars

----------------------------------------------------------------------------
(* properties of SpecDuo *)

\* C25: loop is the timeline's: play(loop, ...) on any player stores its
\* loop argument in timeline.loop, and pause, stop and update on any player
\* leave it as it is, so timeline.loop is the loop argument of the most
\* recent play call on any player; the update of a playing player wraps when
\* timeline.loop is true and clamps when it is false, whichever player's play
\* call set it.
C25_LoopShared ==
    [][/\ last'.op = "play" => timeline'.loop = last'.args[1]
       /\ last'.op \in {"pause", "stop", "update"} => timeline'.loop = timeline.loop
       /\ (last'.op = "update" /\ players[last'.target].playing)
             => LET self == players[last'.target]
                    next == Fl(RAdd(timeline.current_time,
                                    RMul(RMul(last'.args[1], self.speed), self.direction)))
                IN  timeline'.current_time =
                        IF timeline.loop
                        THEN RMod(next, timeline.duration)
                        ELSE RMin(RMax(R(0), next), timeline.duration)]_vars

\* C25 witness: player q is playing, and every play call on q passed
\* loop = False; a play(loop = True) on p came later, timeline.loop is true,
\* and update(3/2) on q has just wrapped the playhead from 3/2 to 1.
C25_Witness ==
    /\ last.op = "update"
    /\ last.target = "q"
    /\ last.args = <<<<3, 2>>>>
    /\ players["q"].playing
    /\ players["p"].playing
    /\ timeline.loop
    /\ lastSet = "wrap"
    /\ timeline.current_time = R(1)
    /\ last.result["a"]["rotation.y"] = Scalar(R(180))

----------------------------------------------------------------------------
(* properties of SpecRun *)

\* player p is playing forward on a timeline that does not loop
Forward ==
    /\ players["p"].playing
    /\ ~timeline.loop
    /\ players["p"].direction = R(1)
    /\ RLt(R(0), players["p"].speed)

\* no update the caller may pass is absorbed here: below duration, the float
\* sum current_time + delta_time * speed is greater than current_time
NoAbsorb ==
    \/ timeline.current_time = timeline.duration
    \/ \A d \in RunDeltas :
          RLt(timeline.current_time,
              Fl(RAdd(timeline.current_time, RMul(d, players["p"].speed))))

\* an update at the end of a forward, non-looping playback leaves the playhead
\* at duration; update never changes the player; only pause and stop end
\* playing
HeldAtEnd ==
    [][/\ (last'.op = "update" /\ Forward /\ timeline.current_time = timeline.duration)
             => timeline'.current_time = timeline.duration
       /\ last'.op = "update" => players' = players
       /\ (players["p"].playing /\ ~players'["p"].playing)
             => last'.op \in {"pause", "stop"}]_vars

\* every update call returns to the frame loop, so with SpecRun's frames that
\* keep elapsing the update calls keep coming
Returns == []<>(inflight["p"].pc = "idle")

\* C26 as stated: with loop = false, after play(speed > 0, reverse = false),
\* and with update calls that keep coming, each with a delta_time from a
\* fixed set of positive amounts, current_time eventually equals duration and
\* stays there on every later update, as long as no pause, stop or other
\* play is called; the player keeps playing until pause or stop is called.
C26_Original ==
    /\ HeldAtEnd
    /\ (Returns /\ <>[](Forward /\ last.op = "update"))
          => <>[](timeline.current_time = timeline.duration)

\* C26, amended: as C26_Original, provided no update is absorbed: the float
\* sum current_time + delta_time * speed of each update made below duration
\* is greater than current_time.
C26_ReachesEnd ==
    /\ HeldAtEnd
    /\ (Returns /\ <>[](Forward /\ last.op = "update" /\ NoAbsorb))
          => <>[](timeline.current_time = timeline.duration)

\* C26 witness: after play(loop = False, speed 1), update(1/2) has just left
\* the playhead at duration = 2, where a clamping advance put it, with the
\* player still playing.
C26_Witness ==
    /\ last.op = "update"
    /\ last.args = <<<<1, 2>>>>
    /\ Forward
    /\ players["p"].speed = R(1)
    /\ lastSet = "clamp"
    /\ timeline.duration = R(2)
    /\ timeline.current_time = timeline.duration
    /\ last.result["a"]["rotation.y"] = Scalar(R(360))

----------------------------------------------------------------------------
(* properties of SpecDup *)

\* the value sample(q) gives a path whose before endpoint is the keyframe b
\* of the list ks: b.value when no keyframe of the path is later than q, the
\* interpolation from b to the after keyframe otherwise
FromBefore(ks, b, q) ==
    LET later == AfterAt(ks, b.property_path, q)
    IN  IF later = {} THEN b.value
        ELSE LET a == ks[CHOOSE i \in later : TRUE]
             IN  lerp(b.value, a.value, Progress(b, a, q), a.interpolation).value

\* the keyframes of path p in ks have pairwise different times
UniqueTimes(ks, p) ==
    \A i \in OfPath(ks, p), j \in OfPath(ks, p) : ks[i].time = ks[j].time => i = j

\* two values of one shape: scalars, or vectors of one length
SameShape(u, v) ==
    /\ u.kind = v.kind
    /\ u.kind = "vector" => Len(u.v) = Len(v.v)

\* sample(q), at q or later and before the next keyframe of the path, takes
\* as before endpoint the keyframe the preceding call added, whatever
\* keyframes of the same path and time the track held already; and among the
\* keyframes of one path and time in the list it takes the one in the last
\* position, which is where add_keyframe puts the one added last
LastAddedWins ==
    [][(last'.op = "track.sample" /\ ~timeline.tracks[last'.target].muted)
          => LET ks == timeline.tracks[last'.target].keyframes
                 q  == last'.args[1]
                 res == last'.result
             IN  /\ last'.raised = None
                 /\ (/\ last.op = "add_keyframe" /\ last.raised = None
                      /\ last.target = last'.target
                      /\ RLeq(last.args[1].time, q)
                      /\ \A i \in OfPath(ks, last.args[1].property_path) :
                             RLeq(ks[i].time, q) => RLeq(ks[i].time, last.args[1].time))
                        => res[last.args[1].property_path] = FromBefore(ks, last.args[1], q)
                 /\ \A p \in DOMAIN res : \A b \in BeforeAt(ks, p, q) :
                        /\ \A j \in OfPath(ks, p) : ks[j].time = ks[b].time => j <= b
                        /\ res[p] = FromBefore(ks, ks[b], q)]_vars

----------------------------------------------------------------------------
(* properties of SpecRace *)

\* current_time after the update calls of players p and then q, run one
\* after the other from current_time = base
Serial(p, q, base) ==
    advance(advance([timeline EXCEPT !.current_time = base], inflight[p].delta),
            inflight[q].delta).current_time

\* both update calls of the frame have returned, both read the same
\* current_time, and current_time is the result of neither serial order
LostUpdate ==
    /\ \A p \in DOMAIN inflight : inflight[p].pc = "done"
    /\ inflight["p"].base = inflight["q"].base
    /\ timeline.current_time # Serial("p", "q", inflight["p"].base)
    /\ timeline.current_time # Serial("q", "p", inflight["p"].base)

\* C15: the update calls of two playing players that wrap one timeline are
\* not coordinated: the write step of advance stores the value computed from
\* the current_time that call read, whatever another player has stored since
\* and whatever locked and muted are.
C15_Uncoordinated ==
    [][\A p \in DOMAIN inflight :
          (inflight[p].pc = "write" /\ inflight'[p].pc = "done")
             => timeline'.current_time =
                   advance([timeline EXCEPT !.current_time = inflight[p].base],
                           inflight[p].delta).current_time]_vars

\* C15 witness: on a timeline whose track is locked and muted, both players
\* read current_time = 0, both update calls advanced by 1/2 and have
\* returned, and current_time is 1/2: one update is lost, either serial
\* order ending at 1.
C15_Witness ==
    /\ LostUpdate
    /\ \A p \in DOMAIN inflight :
          inflight[p].base = R(0) /\ inflight[p].delta = <<1, 2>>
    /\ timeline.current_time = <<1, 2>>
    /\ Serial("p", "q", R(0)) = R(1)
    /\ players["p"].playing /\ players["q"].playing
    /\ timeline.tracks["a"].locked
    /\ timeline.tracks["a"].muted

====
